---- MODULE Spec2Model ----
(***************************************************************************)
(* Guardian recovery relay and validator: a model of                       *)
(*   packages/relayer/relayer.go            (the attestation relay loop),  *)
(*   AztecRecoveryValidator.sol             (replay/authorization guard),  *)
(*   SafeRecoveryModule.sol                 (owner-set reconciler),        *)
(*   mocks/MockSafe.sol                     (the destination account),     *)
(*   AztecRecoveryModule                    (the ERC-7579 executor),       *)
(*   PayloadExtractor                       (the compact payload reader).  *)
(* The relay and the destination chain are state machines over disjoint    *)
(* variables, joined only by the registration logs the watcher reads.      *)
(* RelaySpec, SendSpec, LifeSpec, EmitSpec, BootSpec, WaitSpec, DrainSpec  *)
(* and CacheSpec run the relay; AdminSpec, GuardSpec, ReconSpec, BindSpec, *)
(* CodecSpec, OrderSpec, ScopeSpec, DecodeSpec, LedgerSpec and SourceSpec  *)
(* run the chain; WatchSpec and RegistrySpec run the watcher against the   *)
(* module's registrations.                                                 *)
(***************************************************************************)
EXTENDS Integers, Sequences, FiniteSets, TLC

VARIABLES
    \* ---- relay (relayer.go) ----
    inflightVAAs,       \* Relayer.inflightVAAs: set of dedup keys
    processedVAAs,      \* Relayer.processedVAAs: key -> time of last success
    registeredEmitters, \* Relayer.registeredEmitters: emitter -> safe
    acceptAnyEmitter,   \* Config.AcceptAnyEmitter
    env,                \* the environment NewConfigFromEnv reads
    clock,              \* time.Now() of the relay process
    workers,            \* the goroutines spawned by Start, by slot
    nonceMu,            \* EVMClient.nonceMu: 0 or the slot holding it
    ctxDone,            \* the context handed to Start is cancelled
    startPc,            \* where Start is: "new" (NewRelayer), "start", "subscribe",
                        \* "recv", "reconnect", "wait", "waitErr", "returned" (nil),
                        \* "failed" (an error) or "fatal" (NewRelayer failed)
    deliveries,         \* the deliveries seen by Start, oldest first
    outcome,            \* key -> how its latest worker ended ("none" before any)
    sendLog,            \* key -> the SendVerifyTransaction calls made for it
    watchPc,            \* where watchNewEmitters is: "idle" (not started), "watch",
                        \* "live", "restart", "poll" or "done"
    nextLog,            \* the place in eventLog of the next log of the subscription
    lastBlock,          \* pollNewEmitters' lastBlock
    scans,              \* the FilterLogs calls of pollNewEmitters, oldest first
    \* ---- destination chain (AztecRecoveryValidator, SafeRecoveryModule, account) ----
    consumed,           \* AztecRecoveryValidator.consumed: the nonces set to true
    authorizedModules,  \* AztecRecoveryValidator.authorizedModules: addresses set to true
    vPaused,            \* AztecRecoveryValidator.paused
    vOwner,             \* AztecRecoveryValidator.owner
    mPaused,            \* SafeRecoveryModule.paused
    safeOwners,         \* account -> its owner list, in getOwners() order
    safeThreshold,      \* account -> its threshold
    blockTime,          \* block.timestamp
    eConsumed,          \* AztecRecoveryModule.consumed: the nonces set to true
    authorizedAccounts, \* AztecRecoveryModule.authorizedAccounts: accounts set to true
    ePaused,            \* AztecRecoveryModule.paused
    stack,              \* the invocations in progress of the running transaction, outermost first
    ret,                \* the outcome of the transaction that has just ended
    aztecRecoveryContract, \* SafeRecoveryModule.aztecRecoveryContract: account -> contract
    eventLog,           \* the AztecRecoveryContractSet logs of the module, oldest first
    chainHead,          \* the number of the latest block
    consumedVaas        \* SafeRecoveryModule.consumedVaas: the hashes set to true

\* The registration watcher's own variables, and the module's registrations.
watchVars == <<watchPc, nextLog, lastBlock, scans>>
moduleVars == <<aztecRecoveryContract, eventLog, chainHead, consumedVaas>>

relayVars == <<inflightVAAs, processedVAAs, registeredEmitters, acceptAnyEmitter,
               env, clock, workers, nonceMu, ctxDone, startPc, deliveries, outcome,
               sendLog, watchVars>>

chainVars == <<consumed, authorizedModules, vPaused, vOwner, mPaused, safeOwners,
               safeThreshold, blockTime, eConsumed, authorizedAccounts, ePaused,
               stack, ret, moduleVars>>

vars == <<relayVars, chainVars>>

(***************************************************************************)
(* Bounds and program constants of the relay                               *)
(***************************************************************************)
\* Worker slots of the model (the code spawns without limit).
MaxWorkers == 2
\* Deliveries (of all keys together) the model follows.
MaxDeliveries == 2
\* The relay's clock runs from 0 to MaxTime minutes, in steps of TickStep.
MaxTime == 15
TickStep == 5
\* dedupeTTL, in minutes.
DedupeTTL == 15
\* maxRetries of SendVerifyTransaction.
MaxRetries == 3
\* maxRetries of SpyClient.SubscribeSignedVAA.
SubscribeRetries == 5
\* emitterScanStartBlock: the deployment block, where the scan for registrations
\* starts; the chain is followed for MaxBlocks blocks after it and for MaxEvents
\* registration logs.
emitterScanStartBlock == 9856363
MaxBlocks == 2
MaxEvents == 2
\* The scans of pollNewEmitters the model records.
MaxScans == 3
\* Config.SourceChainID (default) and some other chain.
SourceChainID == 56
OtherChainID == SourceChainID + 1

SafeAddrs == {"S1"}

(***************************************************************************)
(* Strings and hexadecimal encoding. A string is the sequence of its       *)
(* bytes (code points); a byte is a number in 0..255.                      *)
(***************************************************************************)
\* The lower-case hexadecimal digit of a nibble.
hexDigit(n) == IF n < 10 THEN 48 + n ELSE 87 + n

\* hex.EncodeToString, and fmt.Sprintf("%064x", ...) of a fixed-width address:
\* two lower-case digits per byte.
RECURSIVE EncodeToString(_)
EncodeToString(bytes) ==
    IF bytes = <<>> THEN <<>>
    ELSE <<hexDigit(Head(bytes) \div 16), hexDigit(Head(bytes) % 16)>>
         \o EncodeToString(Tail(bytes))

\* The value of a hexadecimal digit of either case, -1 for any other byte.
fromHexChar(c) ==
    IF c \in 48..57 THEN c - 48
    ELSE IF c \in 97..102 THEN c - 87
    ELSE IF c \in 65..70 THEN c - 55
    ELSE 0 - 1

\* hex.DecodeString: an error on an odd length or on a byte that is no digit.
DecodeString(s) ==
    LET ok == Len(s) % 2 = 0 /\ \A i \in DOMAIN s : fromHexChar(s[i]) >= 0
    IN [err |-> ~ok,
        bytes |-> IF ok
                  THEN [i \in 1..(Len(s) \div 2) |->
                           16 * fromHexChar(s[2 * i - 1]) + fromHexChar(s[2 * i])]
                  ELSE <<>>]

\* strings.ToLower on ASCII.
ToLower(s) == [i \in DOMAIN s |-> IF s[i] \in 65..90 THEN s[i] + 32 ELSE s[i]]

\* strings.TrimLeft(s, c) for a cutset of the one byte c.
RECURSIVE TrimLeft(_, _)
TrimLeft(s, c) == IF s # <<>> /\ Head(s) = c THEN TrimLeft(Tail(s), c) ELSE s

\* The strings "true" and "1".
StrTrue == <<116, 114, 117, 101>>
StrOne == <<49>>

(***************************************************************************)
(* Emitters and messages                                                   *)
(***************************************************************************)
\* Emitter addresses, as bytes. The code's are 32 bytes wide, the model's two.
\* ContractA is registered at start; ContractB is not; ContractC is the two
\* bytes '0' 'A', which read as text spell the digits of ContractA's low byte.
ContractA == <<0, 10>>
ContractB == <<1, 171>>
ContractC == <<48, 65>>

\* The raw messages of the feed: whether vaaLib.Unmarshal accepts the bytes, the
\* emitter chain and the emitter address (EmitterHex) it then reads from them,
\* and the account named by the payload.
VAAOf(raw, parses, chain, contract, target) ==
    [raw |-> raw, parses |-> parses, emitterChain |-> chain,
     emitter |-> EncodeToString(contract), target |-> target]

VAABytes ==
    { VAAOf("good",   TRUE,  SourceChainID, ContractA, "S1"),
      VAAOf("good2",  TRUE,  SourceChainID, ContractA, "S1"),
      VAAOf("broken", FALSE, SourceChainID, ContractA, "S1"),
      VAAOf("other",  TRUE,  OtherChainID,  ContractA, "S1"),
      VAAOf("unreg",  TRUE,  SourceChainID, ContractB, "S1"),
      VAAOf("alias",  TRUE,  SourceChainID, ContractC, "S1"),
      VAAOf("cross",  TRUE,  SourceChainID, ContractA, "S2") }

WorkerIds == 1..MaxWorkers

\* sha256 of the raw bytes, hex-encoded: one key per byte string.
computeVAAKey(vaaBytes) == <<"sha256", vaaBytes.raw>>

Keys == { computeVAAKey(b) : b \in VAABytes }

FreeWorker ==
    [pc |-> "free", vaa |-> "none", attempt |-> 0, ok |-> FALSE, nonce |-> 0, gasPrice |-> 0]

Last(s) == s[Len(s)]

(***************************************************************************)
(* The dedup gate                                                          *)
(***************************************************************************)
\* processedVAAs without the entry of key.
DeleteKey(m, key) == [k \in (DOMAIN m) \ {key} |-> m[k]]

\* beginProcessingVAA without the in-flight test.
beginProcessingVAA_NoInflightTest(key, processed, inflight, t) ==
    IF key \in DOMAIN processed /\ t - processed[key] < DedupeTTL
    THEN <<FALSE, processed, inflight>>
    ELSE <<TRUE, DeleteKey(processed, key), inflight \cup {key}>>

\* beginProcessingVAA without the look-up in the success cache.
beginProcessingVAA_NoCacheTest(key, processed, inflight, t) ==
    IF key \in inflight
    THEN <<FALSE, processed, inflight>>
    ELSE <<TRUE, DeleteKey(processed, key), inflight \cup {key}>>

\* beginProcessingVAA under dedupeMu: <<admitted, processedVAAs', inflightVAAs'>>.
beginProcessingVAA(key, processed, inflight, t) ==
    IF key \in DOMAIN processed /\ t - processed[key] < DedupeTTL
    THEN <<FALSE, processed, inflight>>
    ELSE LET p == DeleteKey(processed, key) IN
         IF key \in inflight
         THEN <<FALSE, p, inflight>>
         ELSE <<TRUE, p, inflight \cup {key}>>

\* finishProcessingVAA that records the time whatever the outcome.
finishProcessingVAA_AlwaysCache(key, success, processed, inflight, t) ==
    <<[k \in (DOMAIN processed) \cup {key} |-> IF k = key THEN t ELSE processed[k]],
      inflight \ {key}>>

\* finishProcessingVAA without `delete(r.inflightVAAs, key)`.
finishProcessingVAA_KeepInflight(key, success, processed, inflight, t) ==
    <<IF success
      THEN [k \in (DOMAIN processed) \cup {key} |-> IF k = key THEN t ELSE processed[k]]
      ELSE processed,
      inflight>>

\* finishProcessingVAA under dedupeMu: <<processedVAAs', inflightVAAs'>>.
finishProcessingVAA(key, success, processed, inflight, t) ==
    LET p1 == IF success
              THEN [k \in (DOMAIN processed) \cup {key} |->
                       IF k = key THEN t ELSE processed[k]]
              ELSE processed
        cutoff == t - DedupeTTL
        p2 == [k \in {x \in DOMAIN p1 : ~(p1[x] < cutoff)} |-> p1[k]]
    IN <<p2, inflight \ {key}>>

\* getEnvOrDefault and getEnvBoolOrDefault on a variable of the environment,
\* [set |-> os.LookupEnv found it, val |-> its value].
getEnvOrDefault(var, defaultValue) == IF ~var.set THEN defaultValue ELSE var.val

getEnvBoolOrDefault(var, defaultValue) ==
    IF ~var.set THEN defaultValue
    ELSE ToLower(var.val) = StrTrue \/ var.val = StrOne

Unset == [set |-> FALSE, val |-> <<>>]
SetTo(val) == [set |-> TRUE, val |-> val]

\* Config.EmitterAddress under the environment e.
EmitterAddress(e) == getEnvOrDefault(e.EMITTER_ADDRESS, <<>>)

\* Config.PrivateKey and Config.EVMTargetContract under the environment e.
PrivateKey(e) == getEnvOrDefault(e.PRIVATE_KEY, <<>>)
EVMTargetContract(e) == getEnvOrDefault(e.EVM_TARGET_CONTRACT, <<>>)

\* strings.TrimPrefix(s, "0x").
TrimPrefix0x(s) ==
    IF Len(s) >= 2 /\ s[1] = 48 /\ s[2] = 120 THEN SubSeq(s, 3, Len(s)) ELSE s

\* crypto.HexToECDSA accepts s: 32 bytes in hexadecimal, not all of them zero.
HexToECDSA(s) ==
    LET d == DecodeString(s)
    IN ~d.err /\ Len(d.bytes) = 32 /\ \E i \in DOMAIN d.bytes : d.bytes[i] # 0

\* A signer key (sixty-four times the digit 1), the address of the module in
\* hexadecimal, and the environment of a complete deployment.
SignerKey == [i \in 1..64 |-> 49]
ModuleHex == <<48, 120>> \o EncodeToString(<<171, 205>>)
DeployedEnv ==
    [ACCEPT_ANY_EMITTER |-> Unset, EMITTER_ADDRESS |-> Unset,
     PRIVATE_KEY |-> SetTo(SignerKey), EVM_TARGET_CONTRACT |-> SetTo(ModuleHex)]

\* The emitter as isRegisteredEmitter compares it: the text its bytes spell
\* when they are all printable ASCII, else the hexadecimal string itself.
decodedEmitter(emitterHex) ==
    LET d == DecodeString(emitterHex)
        isAscii == \A i \in DOMAIN d.bytes : ~(d.bytes[i] < 32 \/ d.bytes[i] > 126)
    IN IF ~d.err /\ isAscii THEN d.bytes ELSE emitterHex

\* strings.ToLower(strings.TrimLeft(x, "0")).
normalized(x) == ToLower(TrimLeft(x, 48))

\* The registry keys isRegisteredEmitter takes emitterHex for.
matchingContracts(emitterHex, registry) ==
    { c \in DOMAIN registry :
          \/ normalized(decodedEmitter(emitterHex)) = normalized(c)
          \/ decodedEmitter(emitterHex) = c }

\* isRegisteredEmitter: the emitter is the configured one, or some key of the
\* registry matches it.
isRegisteredEmitter(emitterHex, configEmitter, registry) ==
    \/ /\ configEmitter # <<>>
       /\ \/ normalized(decodedEmitter(emitterHex)) = normalized(configEmitter)
          \/ decodedEmitter(emitterHex) = configEmitter
    \/ matchingContracts(emitterHex, registry) # {}

(***************************************************************************)
(* Relay: initial state                                                    *)
(***************************************************************************)
\* The relay in the receive loop of Start under the environment environment:
\* the bootstrap scan has found ContractA registered for S1, the watcher has
\* its subscription.
RelayStartUnder(environment) ==
    /\ inflightVAAs = {}
    /\ processedVAAs = <<>>
    /\ registeredEmitters = [e \in {EncodeToString(ContractA)} |-> "S1"]
    /\ env = environment
    /\ acceptAnyEmitter = getEnvBoolOrDefault(environment.ACCEPT_ANY_EMITTER, FALSE)
    /\ clock = 0
    /\ workers = [w \in WorkerIds |-> FreeWorker]
    /\ nonceMu = 0
    /\ ctxDone = FALSE
    /\ startPc = "recv"
    /\ deliveries = <<>>
    /\ outcome = [k \in Keys |-> "none"]
    /\ sendLog = [k \in Keys |-> <<>>]
    /\ watchPc = "live"
    /\ nextLog = 2
    /\ lastBlock = emitterScanStartBlock
    /\ scans = <<>>

\* The default configuration of the emitter filter: neither emitter setting is
\* in the environment.
RelayStart == RelayStartUnder(DeployedEnv)

\* The relay process at the beginning of main, NewConfigFromEnv having read the
\* environment environment.
RelayNewUnder(environment) ==
    /\ inflightVAAs = {}
    /\ processedVAAs = <<>>
    /\ registeredEmitters = <<>>
    /\ env = environment
    /\ acceptAnyEmitter = getEnvBoolOrDefault(environment.ACCEPT_ANY_EMITTER, FALSE)
    /\ clock = 0
    /\ workers = [w \in WorkerIds |-> FreeWorker]
    /\ nonceMu = 0
    /\ ctxDone = FALSE
    /\ startPc = "new"
    /\ deliveries = <<>>
    /\ outcome = [k \in Keys |-> "none"]
    /\ sendLog = [k \in Keys |-> <<>>]
    /\ watchPc = "idle"
    /\ nextLog = 1
    /\ lastBlock = emitterScanStartBlock
    /\ scans = <<>>

(***************************************************************************)
(* Relay: Start's receive loop                                             *)
(***************************************************************************)
\* One iteration of the loop of Start that receives vaaBytes: the dedup gate,
\* then, when admitted, wg.Add(1) and the go statement.
Receive(vaaBytes) ==
    LET key == computeVAAKey(vaaBytes)
        r == beginProcessingVAA(key, processedVAAs, inflightVAAs, clock)
        slot == CHOOSE w \in WorkerIds :
                    /\ workers[w].pc = "free"
                    /\ \A v \in WorkerIds : workers[v].pc = "free" => w <= v
    IN /\ startPc = "recv"
       /\ ~ctxDone
       /\ \E w \in WorkerIds : workers[w].pc = "free"
       /\ Len(deliveries) < MaxDeliveries
       /\ processedVAAs' = r[2]
       /\ inflightVAAs' = r[3]
       /\ deliveries' = Append(deliveries,
             [key |-> key, t |-> clock, admitted |-> r[1], after |-> outcome[key]])
       /\ outcome' = IF r[1] THEN [outcome EXCEPT ![key] = "running"] ELSE outcome
       /\ workers' = IF r[1]
                     THEN [workers EXCEPT ![slot] =
                              [FreeWorker EXCEPT !.pc = "start", !.vaa = vaaBytes]]
                     ELSE workers
       /\ UNCHANGED <<registeredEmitters, acceptAnyEmitter, env, clock, nonceMu, ctxDone,
                      startPc, sendLog>>
       /\ UNCHANGED <<watchVars, chainVars>>

\* The shutdown signal: main cancels the context of Start.
Shutdown ==
    /\ ~ctxDone
    /\ ctxDone' = TRUE
    /\ UNCHANGED <<inflightVAAs, processedVAAs, registeredEmitters, acceptAnyEmitter, env,
                   clock, workers, nonceMu, startPc, deliveries, outcome, sendLog>>
    /\ UNCHANGED <<watchVars, chainVars>>

\* Start sees ctx.Done(): cancelProcessing(), then wg.Wait().
StartCancel ==
    /\ startPc = "recv"
    /\ ctxDone
    /\ startPc' = "wait"
    /\ UNCHANGED <<inflightVAAs, processedVAAs, registeredEmitters, acceptAnyEmitter, env,
                   clock, workers, nonceMu, ctxDone, deliveries, outcome, sendLog>>
    /\ UNCHANGED <<watchVars, chainVars>>

\* A Wait that returns at once.
waitGroupDone_NoWait(ws) == TRUE

\* wg.Wait() returns: every goroutine that Start spawned has called wg.Done().
waitGroupDone(ws) == \A w \in WorkerIds : ws[w].pc = "free"

\* wg.Wait() returns once every worker has finished; Start returns nil after a
\* shutdown, the error of the subscription after a failed reconnect.
StartReturn ==
    /\ startPc \in {"wait", "waitErr"}
    /\ waitGroupDone(workers)
    /\ startPc' = IF startPc = "wait" THEN "returned" ELSE "failed"
    /\ UNCHANGED <<inflightVAAs, processedVAAs, registeredEmitters, acceptAnyEmitter, env,
                   clock, workers, nonceMu, ctxDone, deliveries, outcome, sendLog>>
    /\ UNCHANGED <<watchVars, chainVars>>

\* stream.Recv() returns an error: Start logs it and sleeps 5 s before it
\* subscribes again. A cancelled context ends the stream with an error too.
StreamError ==
    /\ startPc = "recv"
    /\ startPc' = "reconnect"
    /\ UNCHANGED <<inflightVAAs, processedVAAs, registeredEmitters, acceptAnyEmitter, env,
                   clock, workers, nonceMu, ctxDone, deliveries, outcome, sendLog>>
    /\ UNCHANGED <<watchVars, chainVars>>

\* SubscribeSignedVAA when its first `failures` attempts fail: a stream, or an
\* error after maxRetries attempts or under a cancelled context.
subscribeSignedVAA(failures, cancelled) ==
    IF cancelled THEN "error"
    ELSE IF failures < SubscribeRetries THEN "stream"
    ELSE "error"

\* Start subscribes again: on a stream it goes back to receiving, on an error
\* it calls cancelProcessing() and wg.Wait() and returns the error.
Resubscribe(failures) ==
    /\ startPc = "reconnect"
    /\ startPc' = IF subscribeSignedVAA(failures, ctxDone) = "stream"
                  THEN "recv" ELSE "waitErr"
    /\ UNCHANGED <<inflightVAAs, processedVAAs, registeredEmitters, acceptAnyEmitter, env,
                   clock, workers, nonceMu, ctxDone, deliveries, outcome, sendLog>>
    /\ UNCHANGED <<watchVars, chainVars>>

\* Time passes.
Tick ==
    /\ clock + TickStep <= MaxTime
    /\ clock' = clock + TickStep
    /\ UNCHANGED <<inflightVAAs, processedVAAs, registeredEmitters, acceptAnyEmitter, env,
                   workers, nonceMu, ctxDone, startPc, deliveries, outcome, sendLog>>
    /\ UNCHANGED <<watchVars, chainVars>>

(***************************************************************************)
(* Relay: the registry of emitters and its watcher                         *)
(***************************************************************************)
\* The relay's variables that the watcher leaves alone.
dispatchVars == <<inflightVAAs, processedVAAs, acceptAnyEmitter, env, clock, workers,
                  nonceMu, ctxDone, startPc, deliveries, outcome, sendLog>>

\* An AztecRecoveryContractSet log: the event signature and the indexed account
\* as topics, the contract (bytes32) as data.
RegistrationLog(block, safe, aztecContract) ==
    [block |-> block,
     topics |-> <<"AztecRecoveryContractSet(address,bytes32)", safe>>,
     data |-> aztecContract]

\* The test of both loops: a log without its indexed topic or its data word.
malformed(log) == Len(log.topics) < 2 \/ Len(log.data) < Len(ContractA)

\* The key and the value the relay reads from a log:
\* hex.EncodeToString(log.Data[:32]) and common.HexToAddress(log.Topics[1].Hex()).
logContract(log) == EncodeToString(SubSeq(log.data, 1, Len(ContractA)))
logSafe(log) == log.topics[2]

\* registry[key] = val.
Put(registry, key, val) ==
    [e \in (DOMAIN registry) \cup {key} |-> IF e = key THEN val ELSE registry[e]]

\* handleNewEmitterEvent that forgets a contract it is told of again.
handleNewEmitterEvent_DropOnRepeat(registry, log) ==
    IF malformed(log) THEN registry
    ELSE IF logContract(log) \in DOMAIN registry THEN DeleteKey(registry, logContract(log))
    ELSE Put(registry, logContract(log), logSafe(log))

\* handleNewEmitterEvent under emittersMu: a contract the registry holds is left
\* as it is, a new one is bound to the account of the log.
handleNewEmitterEvent(registry, log) ==
    IF malformed(log) THEN registry
    ELSE IF logContract(log) \in DOMAIN registry THEN registry
    ELSE Put(registry, logContract(log), logSafe(log))

\* The body of the loop of loadRegisteredEmitters: the contract of the log is
\* bound to its account, whatever the registry held for it.
storeRegisteredEmitter(registry, log) ==
    IF malformed(log) THEN registry
    ELSE Put(registry, logContract(log), logSafe(log))

\* The loops over the logs of one FilterLogs answer.
RECURSIVE loadRegisteredEmitters(_, _)
loadRegisteredEmitters(registry, logs) ==
    IF logs = <<>> THEN registry
    ELSE loadRegisteredEmitters(storeRegisteredEmitter(registry, Head(logs)), Tail(logs))

RECURSIVE handleNewEmitterEvents(_, _)
handleNewEmitterEvents(registry, logs) ==
    IF logs = <<>> THEN registry
    ELSE handleNewEmitterEvents(handleNewEmitterEvent(registry, Head(logs)), Tail(logs))

\* FilterLogs over the blocks from..to.
FilterLogs(logs, from, to) == SelectSeq(logs, LAMBDA l : l.block >= from /\ l.block <= to)

\* main: NewRelayer. NewEVMClient dials the node and reads the signer key; an
\* error of either is answered with logger.Fatal.
NewRelayer(dialFails) ==
    /\ startPc = "new"
    /\ startPc' = IF dialFails \/ ~HexToECDSA(TrimPrefix0x(PrivateKey(env)))
                  THEN "fatal" ELSE "start"
    /\ UNCHANGED <<inflightVAAs, processedVAAs, registeredEmitters, acceptAnyEmitter, env,
                   clock, workers, nonceMu, ctxDone, deliveries, outcome, sendLog>>
    /\ UNCHANGED <<watchVars, chainVars>>

\* Start up to the go statement of the watcher: loadRegisteredEmitters, skipped
\* without a target contract, its error logged and no more.
StartLoad(scanFails) ==
    /\ startPc = "start"
    /\ registeredEmitters' =
          IF EVMTargetContract(env) = <<>> \/ scanFails \/ ctxDone
          THEN registeredEmitters
          ELSE loadRegisteredEmitters(registeredEmitters,
                                      FilterLogs(eventLog, emitterScanStartBlock, chainHead))
    /\ startPc' = "subscribe"
    /\ watchPc' = "watch"
    /\ UNCHANGED <<inflightVAAs, processedVAAs, acceptAnyEmitter, env, clock, workers,
                   nonceMu, ctxDone, deliveries, outcome, sendLog>>
    /\ UNCHANGED <<nextLog, lastBlock, scans, chainVars>>

\* Start subscribes to the feed: the receive loop, or the error returned.
StartSubscribe(failures) ==
    /\ startPc = "subscribe"
    /\ startPc' = IF subscribeSignedVAA(failures, ctxDone) = "stream"
                  THEN "recv" ELSE "failed"
    /\ UNCHANGED <<inflightVAAs, processedVAAs, registeredEmitters, acceptAnyEmitter, env,
                   clock, workers, nonceMu, ctxDone, deliveries, outcome, sendLog>>
    /\ UNCHANGED <<watchVars, chainVars>>

\* watchNewEmitters up to its loop: it returns without a target contract;
\* SubscribeFilterLogs gives the logs from now on, or fails (a transport
\* without subscriptions, a cancelled context) and pollNewEmitters takes over.
WatchBegin(supported) ==
    /\ watchPc = "watch"
    /\ IF EVMTargetContract(env) = <<>>
       THEN watchPc' = "done" /\ UNCHANGED <<nextLog, lastBlock>>
       ELSE IF supported /\ ~ctxDone
       THEN watchPc' = "live" /\ nextLog' = Len(eventLog) + 1 /\ UNCHANGED lastBlock
       ELSE watchPc' = "poll" /\ lastBlock' = emitterScanStartBlock /\ UNCHANGED nextLog
    /\ UNCHANGED <<dispatchVars, registeredEmitters, scans, chainVars>>

\* case log := <-logs.
WatchLog ==
    /\ watchPc = "live"
    /\ nextLog <= Len(eventLog)
    /\ registeredEmitters' = handleNewEmitterEvent(registeredEmitters, eventLog[nextLog])
    /\ nextLog' = nextLog + 1
    /\ UNCHANGED <<dispatchVars, watchPc, lastBlock, scans, chainVars>>

\* case err := <-sub.Err(): the watcher sleeps 5 s ...
WatchError ==
    /\ watchPc = "live"
    /\ watchPc' = "restart"
    /\ UNCHANGED <<dispatchVars, registeredEmitters, nextLog, lastBlock, scans, chainVars>>

\* ... and starts itself again.
WatchRestart ==
    /\ watchPc = "restart"
    /\ watchPc' = "watch"
    /\ UNCHANGED <<dispatchVars, registeredEmitters, nextLog, lastBlock, scans, chainVars>>

\* case <-ctx.Done(), in watchNewEmitters and in pollNewEmitters.
WatchDone ==
    /\ watchPc \in {"live", "poll"}
    /\ ctxDone
    /\ watchPc' = "done"
    /\ UNCHANGED <<dispatchVars, registeredEmitters, nextLog, lastBlock, scans, chainVars>>

\* What one tick of pollNewEmitters does with lastBlock when the latest block
\* is currentBlock: "none" (BlockNumber failed or no new block), "failed"
\* (FilterLogs failed) or "scanned".
pollOutcome(mark, currentBlock, blockFails, filterFails) ==
    IF blockFails THEN "none"
    ELSE IF currentBlock <= mark THEN "none"
    ELSE IF filterFails THEN "failed"
    ELSE "scanned"

\* pollNewEmitters that moves its mark whatever FilterLogs answered.
nextLastBlock_AlwaysAdvance(mark, currentBlock, result) ==
    IF result = "none" THEN mark ELSE currentBlock

\* lastBlock after the tick.
nextLastBlock(mark, currentBlock, result) ==
    IF result = "scanned" THEN currentBlock ELSE mark

\* case <-ticker.C of pollNewEmitters. Under a cancelled context the calls of
\* the node fail.
PollTick(blockFails, filterFails) ==
    LET result == pollOutcome(lastBlock, chainHead, blockFails \/ ctxDone, filterFails)
        logs == FilterLogs(eventLog, lastBlock + 1, chainHead)
    IN /\ watchPc = "poll"
       /\ result = "none" \/ Len(scans) < MaxScans
       /\ registeredEmitters' = IF result = "scanned"
                                THEN handleNewEmitterEvents(registeredEmitters, logs)
                                ELSE registeredEmitters
       /\ lastBlock' = nextLastBlock(lastBlock, chainHead, result)
       /\ scans' = IF result = "none" THEN scans
                   ELSE Append(scans, [from |-> lastBlock + 1, to |-> chainHead,
                                       ok |-> result = "scanned", mark |-> lastBlock])
       /\ UNCHANGED <<dispatchVars, watchPc, nextLog, chainVars>>


(***************************************************************************)
(* Relay: one worker (the goroutine of Start running processVAA)           *)
(***************************************************************************)
\* processingCtx is cancelled by cancelProcessing(), which Start calls on its
\* way out.
processingCancelled == startPc \in {"wait", "waitErr", "returned", "failed"}

\* What processVAA and defaultVAAProcessor decide before any submission:
\* "cancelled" and "undecodable" return an error, "skip" returns nil without
\* submitting, "submit" goes on to SendVerifyTransaction.
processDecision(vaaBytes, cancelled, acceptAny, configEmitter, registry) ==
    IF cancelled THEN "cancelled"
    ELSE IF ~vaaBytes.parses THEN "undecodable"
    ELSE IF vaaBytes.emitterChain # SourceChainID THEN "skip"
    ELSE IF ~acceptAny /\ ~isRegisteredEmitter(vaaBytes.emitter, configEmitter, registry)
         THEN "skip"
    ELSE "submit"

\* processVAA up to the call of SendVerifyTransaction.
WorkerProcess(w) ==
    LET me == workers[w]
        key == computeVAAKey(me.vaa)
        d == processDecision(me.vaa, processingCancelled, acceptAnyEmitter,
                             EmitterAddress(env), registeredEmitters)
    IN /\ me.pc = "start"
       /\ workers' = [workers EXCEPT ![w] =
             IF d = "submit" THEN [me EXCEPT !.pc = "lock"]
             ELSE [me EXCEPT !.pc = "finish", !.ok = (d = "skip")]]
       /\ sendLog' = IF d = "submit"
                     THEN [sendLog EXCEPT ![key] =
                             Append(@, [t |-> clock, attempts |-> 0, result |-> "pending",
                                        nonces |-> <<>>, fees |-> <<>>, answers |-> <<>>])]
                     ELSE sendLog
       /\ UNCHANGED <<inflightVAAs, processedVAAs, registeredEmitters, acceptAnyEmitter, env,
                      clock, nonceMu, ctxDone, startPc, deliveries, outcome>>
       /\ UNCHANGED <<watchVars, chainVars>>

\* A Lock that returns whether or not the mutex is held.
tryLock_NoExclusion(mu) == TRUE

\* sync.Mutex.Lock returns only when the mutex is not held.
tryLock(mu) == mu = 0

\* SendVerifyTransaction: c.nonceMu.Lock().
WorkerLock(w) ==
    /\ workers[w].pc = "lock"
    /\ tryLock(nonceMu)
    /\ nonceMu' = w
    /\ workers' = [workers EXCEPT ![w].pc = "send", ![w].attempt = 0]
    /\ UNCHANGED <<inflightVAAs, processedVAAs, registeredEmitters, acceptAnyEmitter, env,
                   clock, ctxDone, startPc, deliveries, outcome, sendLog>>
    /\ UNCHANGED <<watchVars, chainVars>>

\* The log entry of the running call of key with one more send attempt and result r.
LogAttempt(log, sent, r) ==
    [log EXCEPT ![Len(log)] =
        [@ EXCEPT !.attempts = @ + (IF sent THEN 1 ELSE 0), !.result = r]]

\* The transactions of the signer that the node has accepted: the value of
\* PendingNonceAt.
signerNonce ==
    Cardinality({ e \in Keys \X (1..MaxDeliveries) :
                    e[2] <= Len(sendLog[e[1]]) /\ sendLog[e[1]][e[2]].result = "ok" })

\* getFreshNonce: the higher of the confirmed and the pending nonce.
getFreshNonce(confirmedNonce, pendingNonce) ==
    IF pendingNonce > confirmedNonce THEN pendingNonce ELSE confirmedNonce

\* The gas price of an attempt: the suggested price, and a fifth of it more
\* (big.Int.Div, rounding down) on every attempt after the first.
bumpedGasPrice(suggested, attempt) ==
    IF attempt > 0 THEN suggested + (suggested \div 5) ELSE suggested

\* The head of one iteration of the retry loop of SendVerifyTransaction:
\* getFreshNonce, SuggestGasPrice, the bump, SignTx. quote.fails: one of these
\* calls failed or the call's context timed out, and the call returns its error.
WorkerFetch(w, quote) ==
    LET me == workers[w]
        key == computeVAAKey(me.vaa)
    IN /\ me.pc = "send"
       /\ IF quote.fails
          THEN /\ workers' = [workers EXCEPT ![w] = [me EXCEPT !.pc = "finish", !.ok = FALSE]]
               /\ nonceMu' = 0
               /\ sendLog' = [sendLog EXCEPT ![key] = LogAttempt(@, FALSE, "error")]
          ELSE /\ quote.confirmed <= signerNonce
               /\ workers' = [workers EXCEPT ![w] =
                     [me EXCEPT !.pc = "signed",
                                !.nonce = getFreshNonce(quote.confirmed, signerNonce),
                                !.gasPrice = bumpedGasPrice(quote.gasPrice, me.attempt)]]
               /\ nonceMu' = nonceMu
               /\ sendLog' = sendLog
       /\ UNCHANGED <<inflightVAAs, processedVAAs, registeredEmitters, acceptAnyEmitter, env,
                      clock, ctxDone, startPc, deliveries, outcome>>
       /\ UNCHANGED <<watchVars, chainVars>>

\* A retry loop that goes round again on any error of SendTransaction.
retryable_AnyError(answer, attempt) == answer # "ok" /\ attempt + 1 < MaxRetries

\* The loop goes round again: the answer is a nonce conflict (`continue`) and
\* attempt + 1 < maxRetries.
retryable(answer, attempt) == answer = "nonce" /\ attempt + 1 < MaxRetries

\* The rest of the iteration: SendTransaction with the node's answer, "ok",
\* "nonce" (one of the three nonce-conflict answers) or "error" (any other
\* error); then the return, or the sleep and the next iteration.
WorkerSend(w, answer) ==
    LET me == workers[w]
        key == computeVAAKey(me.vaa)
        again == retryable(answer, me.attempt)
        sent == [sendLog[key] EXCEPT ![Len(sendLog[key])] =
                    [@ EXCEPT !.nonces = Append(@, me.nonce),
                              !.fees = Append(@, me.gasPrice),
                              !.answers = Append(@, answer)]]
    IN /\ me.pc = "signed"
       /\ sendLog' = [sendLog EXCEPT ![key] =
             LogAttempt(sent, TRUE, IF again THEN "pending"
                                    ELSE IF answer = "ok" THEN "ok" ELSE "error")]
       /\ workers' = [workers EXCEPT ![w] =
             IF again THEN [me EXCEPT !.pc = "send", !.attempt = @ + 1]
             ELSE [me EXCEPT !.pc = "finish", !.ok = (answer = "ok")]]
       /\ nonceMu' = IF again THEN nonceMu ELSE 0
       /\ UNCHANGED <<inflightVAAs, processedVAAs, registeredEmitters, acceptAnyEmitter, env,
                      clock, ctxDone, startPc, deliveries, outcome>>
       /\ UNCHANGED <<watchVars, chainVars>>

\* The goroutine's last statement: finishProcessingVAA(dedupeKey, err == nil),
\* then wg.Done().
WorkerFinish(w) ==
    LET me == workers[w]
        key == computeVAAKey(me.vaa)
        r == finishProcessingVAA(key, me.ok, processedVAAs, inflightVAAs, clock)
    IN /\ me.pc = "finish"
       /\ processedVAAs' = r[1]
       /\ inflightVAAs' = r[2]
       /\ outcome' = [outcome EXCEPT ![key] = IF me.ok THEN "ok" ELSE "failed"]
       /\ workers' = [workers EXCEPT ![w] = FreeWorker]
       /\ UNCHANGED <<registeredEmitters, acceptAnyEmitter, env, clock, nonceMu, ctxDone,
                      startPc, deliveries, sendLog>>
       /\ UNCHANGED <<watchVars, chainVars>>

SendAnswers == {"ok", "nonce", "error"}

\* What the node answers to the head of an iteration: a failure, or the
\* confirmed nonce and the suggested gas price.
Quote(fails, confirmed, gasPrice) ==
    [fails |-> fails, confirmed |-> confirmed, gasPrice |-> gasPrice]

\* The suggested gas prices, in wei.
GasPrices == {10, 12}

\* RelaySpec: the node suggests one gas price throughout.
RelayQuotes == {Quote(TRUE, 0, 0)} \cup { Quote(FALSE, 0, p) : p \in {10} }

\* The messages of the feed in RelaySpec.
FeedBytes == { b \in VAABytes : b.raw \in {"good", "broken", "other"} }

RelayNext ==
    \/ \E b \in FeedBytes : Receive(b)
    \/ \E w \in WorkerIds : WorkerProcess(w)
    \/ \E w \in WorkerIds : WorkerLock(w)
    \/ \E w \in WorkerIds, q \in RelayQuotes : WorkerFetch(w, q)
    \/ \E w \in WorkerIds, a \in SendAnswers : WorkerSend(w, a)
    \/ \E w \in WorkerIds : WorkerFinish(w)
    \/ Tick

(***************************************************************************)
(* Destination chain: addresses, attestations and calls                    *)
(***************************************************************************)
\* Nested invocations followed in one transaction, and nested calls the account
\* makes from within one invocation.
MaxDepth == 2
MaxNested == 2
\* block.timestamp runs from 0 to MaxBlockTime.
MaxBlockTime == 2
\* Longest owner list of an account at the start, and of a target, in ReconSpec.
MaxOwners == 3
MaxTargetOwners == 2

Owners == {"A", "B", "C", "D"}
Nonces == {"n1", "n2"}
Accounts == SafeAddrs \cup {"S2"}
ZeroAddress == "0x0"
\* address(0x1), the head of the Safe's owner list.
Sentinel == "0x1"
\* The recovery module's address, and another address that may be authorized.
ModuleAddrs == {"module", "stranger"}
\* Transaction senders: the deployer of the contracts and anybody else.
Senders == {"deployer", "stranger"}
\* block.chainid, and the id of some other chain.
BlockChainId == "here"
ChainIds == {BlockChainId, "elsewhere"}
MAGICVALUE == "0x1626ba7e"
ApplyRecoverySelector == "applyRecovery(address,address[],uint256,bytes32,bytes)"

\* The owner list and threshold of the accounts at deployment.
InitialOwners == <<"A", "B", "C">>

NoRet == [status |-> "none"]

SeqsUpTo(S, n) == UNION { [1..k -> S] : k \in 1..n }
NoDup(s) == \A a, b \in DOMAIN s : a # b => s[a] # s[b]

\* An attestation as wormhole.parseAndVerifyVM and abi.decode of its payload give
\* it: the core's verdict and (version, chainId, safe, owners, threshold, nonce,
\* expiry).
Attestation(valid, version, chainId, safe, owners, threshold, nonce, expiry) ==
    [valid |-> valid, version |-> version, chainId |-> chainId, safe |-> safe,
     owners |-> owners, threshold |-> threshold, nonce |-> nonce, expiry |-> expiry]

\* An attestation that passes every check but those on nonce and expiry.
Intent(safe, owners, threshold, nonce, expiry) ==
    Attestation(TRUE, 1, BlockChainId, safe, owners, threshold, nonce, expiry)

\* The arguments of applyRecovery.
Call(targetSafe, newOwners, newThreshold, nonce, vaa) ==
    [targetSafe |-> targetSafe, newOwners |-> newOwners, newThreshold |-> newThreshold,
     nonce |-> nonce, vaa |-> vaa]

\* The call whose arguments repeat the attestation.
ExactCall(vaa) == Call(vaa.safe, vaa.owners, vaa.threshold, vaa.nonce, vaa)

(***************************************************************************)
(* The account (MockSafe)                                                  *)
(***************************************************************************)
Acct(s) == [owners |-> safeOwners[s], threshold |-> safeThreshold[s]]

isOwner(owners, o) == \E k \in DOMAIN owners : owners[k] = o

\* The first index of o in owners.
IndexOf(owners, o) ==
    CHOOSE k \in DOMAIN owners :
        owners[k] = o /\ \A m \in 1..(k - 1) : owners[m] # o

Failed(acct) == [ok |-> FALSE, owners |-> acct.owners, threshold |-> acct.threshold]

addOwnerWithThreshold(acct, owner, _threshold) ==
    IF owner = ZeroAddress THEN Failed(acct)
    ELSE IF isOwner(acct.owners, owner) THEN Failed(acct)
    ELSE IF ~(_threshold > 0 /\ _threshold <= Len(acct.owners) + 1) THEN Failed(acct)
    ELSE [ok |-> TRUE, owners |-> Append(acct.owners, owner), threshold |-> _threshold]

\* removeOwner without its require on _threshold.
removeOwner_NoThresholdTest(acct, prevOwner, owner, _threshold) ==
    IF ~isOwner(acct.owners, owner) THEN Failed(acct)
    ELSE LET n == Len(acct.owners)
             moved == [acct.owners EXCEPT ![IndexOf(acct.owners, owner)] = acct.owners[n]]
         IN [ok |-> TRUE, owners |-> SubSeq(moved, 1, n - 1), threshold |-> _threshold]

\* The owner's slot takes the last owner, then the array loses its last slot;
\* prevOwner is not read.
removeOwner(acct, prevOwner, owner, _threshold) ==
    IF ~isOwner(acct.owners, owner) THEN Failed(acct)
    ELSE IF ~(_threshold > 0 /\ _threshold <= Len(acct.owners) - 1) THEN Failed(acct)
    ELSE LET n == Len(acct.owners)
             moved == [acct.owners EXCEPT ![IndexOf(acct.owners, owner)] = acct.owners[n]]
         IN [ok |-> TRUE, owners |-> SubSeq(moved, 1, n - 1), threshold |-> _threshold]

changeThreshold(acct, _threshold) ==
    IF ~(_threshold > 0 /\ _threshold <= Len(acct.owners)) THEN Failed(acct)
    ELSE [ok |-> TRUE, owners |-> acct.owners, threshold |-> _threshold]

(***************************************************************************)
(* AztecRecoveryValidator                                                  *)
(***************************************************************************)
\* The expiry test with >= in the place of >.
isExpired_AtExpiry(timestamp, expiry) == timestamp >= expiry

\* block.timestamp > expiry
isExpired(timestamp, expiry) == timestamp > expiry

\* A replay test that finds no nonce consumed.
isConsumed_Never(marks, nonce) == FALSE

\* consumed[nonce]
isConsumed(marks, nonce) == nonce \in marks

\* _validateCallData that compares the owners as sets.
validateCallData_OwnersAsSet(args, expectedSafe, expectedOwners, expectedThreshold, expectedNonce) ==
    IF args.targetSafe # expectedSafe THEN "SafeMismatch"
    ELSE IF args.newThreshold # expectedThreshold THEN "ThresholdMismatch"
    ELSE IF args.nonce # expectedNonce THEN "NonceMismatch"
    ELSE IF { expectedOwners[k] : k \in DOMAIN expectedOwners }
            # { args.newOwners[k] : k \in DOMAIN args.newOwners }
         THEN "OwnersMismatch"
    ELSE MAGICVALUE

\* _validateCallData: the error it reverts with, MAGICVALUE when it returns.
validateCallData(args, expectedSafe, expectedOwners, expectedThreshold, expectedNonce) ==
    IF args.targetSafe # expectedSafe THEN "SafeMismatch"
    ELSE IF args.newThreshold # expectedThreshold THEN "ThresholdMismatch"
    ELSE IF args.nonce # expectedNonce THEN "NonceMismatch"
    ELSE IF Len(expectedOwners) # Len(args.newOwners) THEN "OwnersMismatch"
    ELSE IF \E k \in DOMAIN expectedOwners : expectedOwners[k] # args.newOwners[k]
         THEN "OwnersMismatch"
    ELSE MAGICVALUE

\* validate with the comparison of the call arguments ahead of the replay test.
validate_ArgsBeforeNonce(sender, callData, vaa) ==
    IF vPaused THEN "ValidatorPaused"
    ELSE IF sender \notin authorizedModules THEN "NotAuthorizedModule"
    ELSE IF ~vaa.valid THEN "InvalidVAA"
    ELSE IF vaa.version # 1 THEN "BadVersion"
    ELSE IF vaa.chainId # BlockChainId THEN "WrongChain"
    ELSE IF isExpired(blockTime, vaa.expiry) THEN "Expired"
    ELSE IF callData.selector # ApplyRecoverySelector THEN "BadSelector"
    ELSE IF validateCallData(callData.args, vaa.safe, vaa.owners, vaa.threshold,
                             vaa.nonce) # MAGICVALUE
         THEN validateCallData(callData.args, vaa.safe, vaa.owners, vaa.threshold,
                               vaa.nonce)
    ELSE IF isConsumed(consumed, vaa.nonce) THEN "NonceAlreadyConsumed"
    ELSE MAGICVALUE

\* validate, called by sender: the error it reverts with, or MAGICVALUE.
validate(sender, callData, vaa) ==
    IF vPaused THEN "ValidatorPaused"
    ELSE IF sender \notin authorizedModules THEN "NotAuthorizedModule"
    ELSE IF ~vaa.valid THEN "InvalidVAA"
    ELSE IF vaa.version # 1 THEN "BadVersion"
    ELSE IF vaa.chainId # BlockChainId THEN "WrongChain"
    ELSE IF isExpired(blockTime, vaa.expiry) THEN "Expired"
    ELSE IF isConsumed(consumed, vaa.nonce) THEN "NonceAlreadyConsumed"
    ELSE IF callData.selector # ApplyRecoverySelector THEN "BadSelector"
    ELSE validateCallData(callData.args, vaa.safe, vaa.owners, vaa.threshold, vaa.nonce)

(***************************************************************************)
(* Transactions: invocation frames, commit and revert                      *)
(***************************************************************************)
\* What a transaction can change, and a revert restores.
Snapshot ==
    [consumed |-> consumed, eConsumed |-> eConsumed, safeOwners |-> safeOwners,
     safeThreshold |-> safeThreshold]

Restore(st) ==
    /\ consumed' = st.consumed
    /\ eConsumed' = st.eConsumed
    /\ safeOwners' = st.safeOwners
    /\ safeThreshold' = st.safeThreshold

txVars == <<consumed, eConsumed, safeOwners, safeThreshold>>
adminVars == <<authorizedModules, vPaused, vOwner, mPaused, ePaused, authorizedAccounts,
               blockTime>>

\* No transaction is running and the last one's outcome has been taken.
Idle == stack = <<>> /\ ret.status = "none"

Top == stack[Len(stack)]
SetTop(f) == [stack EXCEPT ![Len(stack)] = f]

\* The invocation f ends with status, the chain state becoming st: the result
\* of the transaction when f is the outermost invocation, else one more answer
\* to the account that made the nested call.
End(f, status, st) ==
    /\ Restore(st)
    /\ IF Len(stack) = 1
       THEN /\ stack' = <<>>
            /\ ret' = [status |-> status, kind |-> f.kind, call |-> f.call,
                       current |-> f.current, calls |-> f.calls, nested |-> f.nested,
                       pre |-> f.saved]
       ELSE /\ stack' = [SubSeq(stack, 1, Len(stack) - 1)
                            EXCEPT ![Len(stack) - 1].nested = Append(@, status)]
            /\ ret' = ret

\* A sub-call whose failure is logged and left in place: the invocation ends
\* with status and the chain state stays as the earlier sub-calls made it.
SubCall_KeepOnFailure(f, s, entry, r, next, status) ==
    LET logged == [f EXCEPT !.calls = Append(@, entry)]
    IN IF r.ok
       THEN /\ safeOwners' = [safeOwners EXCEPT ![s] = r.owners]
            /\ safeThreshold' = [safeThreshold EXCEPT ![s] = r.threshold]
            /\ UNCHANGED <<consumed, eConsumed, ret>>
            /\ stack' = SetTop([logged EXCEPT !.phase = next.phase, !.i = next.i,
                                              !.j = next.j])
       ELSE End(logged, status, Snapshot)

\* The sub-call whose log entry is entry and whose answer from the account s is
\* r: the account takes its new state, or, the gate of the account returning
\* success = false, the invocation reverts with status.
SubCall(f, s, entry, r, next, status) ==
    LET logged == [f EXCEPT !.calls = Append(@, entry)]
    IN IF r.ok
       THEN /\ safeOwners' = [safeOwners EXCEPT ![s] = r.owners]
            /\ safeThreshold' = [safeThreshold EXCEPT ![s] = r.threshold]
            /\ UNCHANGED <<consumed, eConsumed, ret>>
            /\ stack' = SetTop([logged EXCEPT !.phase = next.phase, !.i = next.i,
                                              !.j = next.j])
       ELSE End(logged, status, f.saved)

(***************************************************************************)
(* SafeRecoveryModule.applyRecovery                                        *)
(***************************************************************************)
\* abi.encodeWithSelector(this.applyRecovery.selector, ...)
CallData(call) == [selector |-> ApplyRecoverySelector, args |-> call]

\* Lines 84-90: the pause test and the validator's verdict.
applyRecoveryChecks(call) ==
    IF mPaused THEN "ModulePaused"
    ELSE validate("module", CallData(call), call.vaa)

\* The invocation after validation: `current` read, `keep` all false.
ApplyFrame(call) ==
    [kind |-> "apply", call |-> call, current |-> safeOwners[call.targetSafe],
     keep |-> {}, phase |-> "add", i |-> 1, j |-> 1, plan |-> <<>>, calls |-> <<>>,
     nested |-> <<>>, saved |-> Snapshot]

Rejected(kind, call, status) ==
    [status |-> status, kind |-> kind, call |-> call, current |-> <<>>, calls |-> <<>>,
     nested |-> <<>>, pre |-> Snapshot]

\* A transaction calls applyRecovery.
applyRecovery(call) ==
    /\ Idle
    /\ IF applyRecoveryChecks(call) # MAGICVALUE
       THEN /\ ret' = Rejected("apply", call, applyRecoveryChecks(call))
            /\ stack' = stack
       ELSE /\ stack' = <<ApplyFrame(call)>>
            /\ ret' = ret
    /\ UNCHANGED <<txVars, adminVars, relayVars, moduleVars>>

\* A removal loop that does not consult keep.
removalNeeded_Always(keep, j) == TRUE

\* `if (!keep[j])` of the removal loop.
removalNeeded(keep, j) == j \notin keep

\* One iteration of the loop of lines 99-114, or its exit.
StepAdd ==
    /\ stack # <<>>
    /\ Top.kind = "apply" /\ Top.phase = "add"
    /\ LET f == Top
           s == f.call.targetSafe
           o == f.call.newOwners[f.i]
       IN IF f.i > Len(f.call.newOwners)
          THEN /\ stack' = SetTop([f EXCEPT !.phase = "remove"])
               /\ UNCHANGED <<txVars, ret>>
          ELSE IF isOwner(f.current, o)
          THEN /\ stack' = SetTop([f EXCEPT !.keep = @ \cup {IndexOf(f.current, o)},
                                            !.i = @ + 1])
               /\ UNCHANGED <<txVars, ret>>
          ELSE SubCall(f, s,
                       [op |-> "add", owner |-> o, prev |-> "",
                        threshold |-> safeThreshold[s], at |-> safeOwners[s]],
                       addOwnerWithThreshold(Acct(s), o, safeThreshold[s]),
                       [phase |-> "add", i |-> f.i + 1, j |-> f.j], "SafeCallFailed")
    /\ UNCHANGED <<adminVars, relayVars, moduleVars>>

\* One iteration of the loop of lines 118-125, or its exit.
StepRemove ==
    /\ stack # <<>>
    /\ Top.kind = "apply" /\ Top.phase = "remove"
    /\ LET f == Top
           s == f.call.targetSafe
           prev == IF f.j = 1 THEN Sentinel ELSE f.current[f.j - 1]
       IN IF f.j > Len(f.current)
          THEN /\ stack' = SetTop([f EXCEPT !.phase = "threshold"])
               /\ UNCHANGED <<txVars, ret>>
          ELSE IF ~removalNeeded(f.keep, f.j)
          THEN /\ stack' = SetTop([f EXCEPT !.j = @ + 1])
               /\ UNCHANGED <<txVars, ret>>
          ELSE SubCall(f, s,
                       [op |-> "remove", owner |-> f.current[f.j], prev |-> prev,
                        threshold |-> safeThreshold[s], at |-> safeOwners[s]],
                       removeOwner(Acct(s), prev, f.current[f.j], safeThreshold[s]),
                       [phase |-> "remove", i |-> f.i, j |-> f.j + 1], "SafeCallFailed")
    /\ UNCHANGED <<adminVars, relayVars, moduleVars>>

\* Line 128: changeThreshold(newThreshold).
StepThreshold ==
    /\ stack # <<>>
    /\ Top.kind = "apply" /\ Top.phase = "threshold"
    /\ LET f == Top
           s == f.call.targetSafe
       IN SubCall(f, s,
                  [op |-> "threshold", owner |-> "", prev |-> "",
                   threshold |-> f.call.newThreshold, at |-> safeOwners[s]],
                  changeThreshold(Acct(s), f.call.newThreshold),
                  [phase |-> "consume", i |-> f.i, j |-> f.j], "SafeCallFailed")
    /\ UNCHANGED <<adminVars, relayVars, moduleVars>>

\* Lines 131-134: markConsumed(nonce) called by the module, then the return.
StepConsume ==
    /\ stack # <<>>
    /\ Top.kind = "apply" /\ Top.phase = "consume"
    /\ IF "module" \notin authorizedModules
       THEN End(Top, "ConsumeNonceFailed", Top.saved)
       ELSE End(Top, "ok", [Snapshot EXCEPT !.consumed = @ \cup {Top.call.nonce}])
    /\ UNCHANGED <<adminVars, relayVars, moduleVars>>

(***************************************************************************)
(* AztecRecoveryModule.executeRecovery                                     *)
(***************************************************************************)
\* Lines 97-112: the error executeRecovery reverts with, or "pass".
executeRecoveryChecks(safe, vaa) ==
    IF ePaused THEN "ModulePaused"
    ELSE IF safe \notin authorizedAccounts THEN "NotAuthorized"
    ELSE IF ~vaa.valid THEN "InvalidVAA"
    ELSE IF vaa.version # 1 THEN "InvalidVersion"
    ELSE IF vaa.chainId # BlockChainId THEN "WrongChain"
    ELSE IF vaa.safe # safe THEN "WrongSafe"
    ELSE IF isExpired(blockTime, vaa.expiry) THEN "Expired"
    ELSE IF isConsumed(eConsumed, vaa.nonce) THEN "AlreadyConsumed"
    ELSE "pass"

\* _buildRecoveryCalls: one addOwnerWithThreshold(owner, 1) for each new owner,
\* then changeThreshold(threshold).
buildRecoveryCalls(newOwners, threshold) ==
    [k \in 1..(Len(newOwners) + 1) |->
        IF k <= Len(newOwners)
        THEN [op |-> "add", owner |-> newOwners[k], threshold |-> 1]
        ELSE [op |-> "threshold", owner |-> "", threshold |-> threshold]]

\* The invocation once the nonce is marked (line 115) and the calls are built.
ExecFrame(safe, vaa) ==
    [kind |-> "exec", call |-> [targetSafe |-> safe, vaa |-> vaa],
     current |-> safeOwners[safe], keep |-> {}, phase |-> "exec", i |-> 1, j |-> 1,
     plan |-> buildRecoveryCalls(vaa.owners, vaa.threshold), calls |-> <<>>,
     nested |-> <<>>, saved |-> Snapshot]

\* A transaction calls executeRecovery.
executeRecovery(safe, vaa) ==
    /\ Idle
    /\ IF executeRecoveryChecks(safe, vaa) # "pass"
       THEN /\ ret' = Rejected("exec", [targetSafe |-> safe, vaa |-> vaa],
                               executeRecoveryChecks(safe, vaa))
            /\ stack' = stack
            /\ eConsumed' = eConsumed
       ELSE /\ stack' = <<ExecFrame(safe, vaa)>>
            /\ eConsumed' = eConsumed \cup {vaa.nonce}
            /\ ret' = ret
    /\ UNCHANGED <<consumed, safeOwners, safeThreshold, adminVars, relayVars, moduleVars>>

\* One iteration of the loop of _execute, or the return of executeRecovery.
StepExec ==
    /\ stack # <<>>
    /\ Top.kind = "exec"
    /\ LET f == Top
           s == f.call.targetSafe
           c == f.plan[f.i]
       IN IF f.i > Len(f.plan)
          THEN End(f, "ok", Snapshot)
          ELSE SubCall(f, s,
                       [op |-> c.op, owner |-> c.owner, prev |-> "",
                        threshold |-> c.threshold, at |-> safeOwners[s]],
                       IF c.op = "add"
                       THEN addOwnerWithThreshold(Acct(s), c.owner, c.threshold)
                       ELSE changeThreshold(Acct(s), c.threshold),
                       [phase |-> "exec", i |-> f.i + 1, j |-> f.j], "ExecutionFailed")
    /\ UNCHANGED <<adminVars, relayVars, moduleVars>>

(***************************************************************************)
(* The account is given control: nested calls                              *)
(***************************************************************************)
\* The next step of invocation f is a call into the account.
SubCallPending(f) ==
    \/ /\ f.kind = "apply" /\ f.phase = "add"
       /\ f.i <= Len(f.call.newOwners)
       /\ ~isOwner(f.current, f.call.newOwners[f.i])
    \/ /\ f.kind = "apply" /\ f.phase = "remove"
       /\ f.j <= Len(f.current)
       /\ removalNeeded(f.keep, f.j)
    \/ f.kind = "apply" /\ f.phase = "threshold"
    \/ f.kind = "exec" /\ f.i <= Len(f.plan)

\* Inside a sub-call, before acting on it, the account (or a contract it calls)
\* calls the running entry point again with the transaction's own arguments; a
\* revert of the nested call is caught by its caller.
Reenter ==
    /\ stack # <<>>
    /\ Len(stack) < MaxDepth
    /\ Len(Top.nested) < MaxNested
    /\ SubCallPending(Top)
    /\ LET call == stack[1].call
       IN IF stack[1].kind = "apply"
          THEN /\ IF applyRecoveryChecks(call) # MAGICVALUE
                  THEN stack' = SetTop([Top EXCEPT
                                          !.nested = Append(@, applyRecoveryChecks(call))])
                  ELSE stack' = Append(stack, ApplyFrame(call))
               /\ eConsumed' = eConsumed
          ELSE /\ IF executeRecoveryChecks(call.targetSafe, call.vaa) # "pass"
                  THEN /\ stack' = SetTop([Top EXCEPT !.nested =
                              Append(@, executeRecoveryChecks(call.targetSafe, call.vaa))])
                       /\ eConsumed' = eConsumed
                  ELSE /\ stack' = Append(stack, ExecFrame(call.targetSafe, call.vaa))
                       /\ eConsumed' = eConsumed \cup {call.vaa.nonce}
    /\ UNCHANGED <<consumed, safeOwners, safeThreshold, ret, adminVars, relayVars, moduleVars>>

\* The sender takes the outcome of its transaction.
Return ==
    /\ ret.status # "none"
    /\ ret' = NoRet
    /\ UNCHANGED <<stack, txVars, adminVars, relayVars, moduleVars>>

(***************************************************************************)
(* Administration and time                                                 *)
(***************************************************************************)
\* AztecRecoveryValidator.setOwner, onlyOwner.
setOwner(sender, _owner) ==
    /\ Idle
    /\ vOwner' = IF sender = vOwner THEN _owner ELSE vOwner
    /\ UNCHANGED <<authorizedModules, vPaused, mPaused, ePaused, authorizedAccounts,
                   blockTime, txVars, stack, ret, relayVars, moduleVars>>

\* AztecRecoveryValidator.setPaused, onlyOwner.
setPaused(sender, v) ==
    /\ Idle
    /\ vPaused' = IF sender = vOwner THEN v ELSE vPaused
    /\ UNCHANGED <<authorizedModules, vOwner, mPaused, ePaused, authorizedAccounts,
                   blockTime, txVars, stack, ret, relayVars, moduleVars>>

\* AztecRecoveryValidator.setModuleAuthorized, onlyOwner.
setModuleAuthorized(sender, module, authorized) ==
    /\ Idle
    /\ authorizedModules' =
          IF sender # vOwner THEN authorizedModules
          ELSE IF authorized THEN authorizedModules \cup {module}
          ELSE authorizedModules \ {module}
    /\ UNCHANGED <<vPaused, vOwner, mPaused, ePaused, authorizedAccounts, blockTime,
                   txVars, stack, ret, relayVars, moduleVars>>

\* AztecRecoveryValidator.onInstall, from any sender: data of 20 bytes or more
\* authorizes the address in its first 20 bytes.
onInstall(data) ==
    /\ Idle
    /\ authorizedModules' =
          IF data.long THEN authorizedModules \cup {data.module} ELSE authorizedModules
    /\ UNCHANGED <<vPaused, vOwner, mPaused, ePaused, authorizedAccounts, blockTime,
                   txVars, stack, ret, relayVars, moduleVars>>

\* setModuleAuthorized and onInstall as transactions whose sender and outcome
\* are kept: the list as the call found it, and the revert of onlyOwner.
setModuleAuthorizedCall(sender, module, authorized) ==
    /\ Idle
    /\ authorizedModules' =
          IF sender # vOwner THEN authorizedModules
          ELSE IF authorized THEN authorizedModules \cup {module}
          ELSE authorizedModules \ {module}
    /\ ret' = [status |-> IF sender # vOwner THEN "NotOwner" ELSE "ok",
               kind |-> "authorize", call |-> [module |-> module, authorized |-> authorized],
               sender |-> sender, current |-> <<>>, calls |-> <<>>, nested |-> <<>>,
               pre |-> Snapshot, authorized |-> authorizedModules]
    /\ UNCHANGED <<vPaused, vOwner, mPaused, ePaused, authorizedAccounts, blockTime,
                   txVars, stack, relayVars, moduleVars>>

onInstallCall(sender, data) ==
    /\ Idle
    /\ authorizedModules' =
          IF data.long THEN authorizedModules \cup {data.module} ELSE authorizedModules
    /\ ret' = [status |-> "ok", kind |-> "install", call |-> data, sender |-> sender,
               current |-> <<>>, calls |-> <<>>, nested |-> <<>>, pre |-> Snapshot,
               authorized |-> authorizedModules]
    /\ UNCHANGED <<vPaused, vOwner, mPaused, ePaused, authorizedAccounts, blockTime,
                   txVars, stack, relayVars, moduleVars>>

\* AztecRecoveryValidator.markConsumed called in a transaction of its own.
markConsumed(sender, nonce) ==
    /\ Idle
    /\ consumed' = IF sender \in authorizedModules THEN consumed \cup {nonce} ELSE consumed
    /\ UNCHANGED <<eConsumed, safeOwners, safeThreshold, adminVars, stack, ret, relayVars, moduleVars>>

\* validate called by sender in a transaction of its own; it is a view function.
validateCall(sender, call) ==
    /\ Idle
    /\ ret' = [status |-> validate(sender, CallData(call), call.vaa), kind |-> "validate",
               call |-> call, sender |-> sender, current |-> <<>>, calls |-> <<>>,
               nested |-> <<>>, pre |-> Snapshot]
    /\ UNCHANGED <<txVars, stack, adminVars, relayVars, moduleVars>>

\* SafeRecoveryModule.setPaused, onlyOwner; the owner is the deployer for good.
moduleSetPaused(sender, v) ==
    /\ Idle
    /\ mPaused' = IF sender = "deployer" THEN v ELSE mPaused
    /\ UNCHANGED <<authorizedModules, vPaused, vOwner, ePaused, authorizedAccounts,
                   blockTime, txVars, stack, ret, relayVars, moduleVars>>

\* A later block.
TickBlock ==
    /\ Idle
    /\ blockTime < MaxBlockTime
    /\ blockTime' = blockTime + 1
    /\ UNCHANGED <<authorizedModules, vPaused, vOwner, mPaused, ePaused,
                   authorizedAccounts, txVars, stack, ret, relayVars, moduleVars>>

\* The next block of the chain.
NewBlock ==
    /\ chainHead < emitterScanStartBlock + MaxBlocks
    /\ chainHead' = chainHead + 1
    /\ UNCHANGED <<aztecRecoveryContract, eventLog, consumedVaas, relayVars>>
    /\ UNCHANGED <<adminVars, txVars, stack, ret>>

\* bytes32(0), what the mapping holds for an account that never registered.
NoContract == [i \in 1..Len(ContractA) |-> 0]

\* The contracts accounts register, and the addresses that call the module.
Contracts == {ContractA, ContractB}
Callers == Accounts \cup Senders

\* setAztecRecoveryContract that lets its caller name the account.
setBinding_AnyAccount(binding, sender, safe, aztecContract) ==
    [binding EXCEPT ![safe] = aztecContract]

\* aztecRecoveryContract[msg.sender] = aztecContract. (safe is the account the
\* caller would like to bind; the function has no such parameter.)
setBinding(binding, sender, safe, aztecContract) ==
    [binding EXCEPT ![sender] = aztecContract]

\* SafeRecoveryModule.setAztecRecoveryContract called by sender, a transaction
\* mined in a block of its own: the binding of the caller is set and the event
\* emitted.
setAztecRecoveryContract(sender, safe, aztecContract) ==
    /\ Idle
    /\ Len(eventLog) < MaxEvents
    /\ chainHead < emitterScanStartBlock + MaxBlocks
    /\ chainHead' = chainHead + 1
    /\ aztecRecoveryContract' = setBinding(aztecRecoveryContract, sender, safe, aztecContract)
    /\ eventLog' = Append(eventLog, RegistrationLog(chainHead + 1, sender, aztecContract))
    /\ UNCHANGED <<consumedVaas, relayVars>>
    /\ UNCHANGED <<adminVars, txVars, stack, ret>>

(***************************************************************************)
(* SafeRecoveryModule.verify and the compact payload                       *)
(***************************************************************************)
\* block.chainid of the deployment (Sepolia) and the id of another chain.
SepoliaChainId == 11155111
ArbitrumSepoliaChainId == 421614
ChainNumber(c) == IF c = BlockChainId THEN SepoliaChainId ELSE ArbitrumSepoliaChainId

Zeros(n) == [k \in 1..n |-> 0]
Reverse(s) == [k \in 1..Len(s) |-> s[Len(s) + 1 - k]]

\* The addresses of the model as 20 bytes, most significant first, and back.
KnownAddresses == Accounts \cup Owners \cup {"module", ZeroAddress}
AddressBytes(a) ==
    LET Addr(hi, lo) == <<hi>> \o Zeros(18) \o <<lo>>
    IN CASE a = "S1" -> Addr(83, 1)
         [] a = "S2" -> Addr(83, 2)
         [] a = "A" -> Addr(10, 65)
         [] a = "B" -> Addr(11, 66)
         [] a = "C" -> Addr(12, 67)
         [] a = "D" -> Addr(13, 68)
         [] a = "module" -> Addr(100, 77)
         [] a = ZeroAddress -> Zeros(20)
AddressOf(bytes) == CHOOSE a \in KnownAddresses : AddressBytes(a) = bytes

\* The hash of the source transaction, 32 bytes.
TxIds == {1}
TxHash(t) == <<t>> \o Zeros(30) \o <<255>>

\* A chain id in three bytes, least significant first.
ChainIdLE(n) == <<n % 256, (n \div 256) % 256, (n \div 65536) % 256>>

\* The payload of the layout verify reads: [txHash(32), module(20), chainId(3),
\* safe(20), zeros(21), candidate(20), padding(17)], the fields after the hash
\* least significant byte first.
CompactPayload(txHash, module, chainId, safe, candidate) ==
    txHash \o Reverse(AddressBytes(module)) \o ChainIdLE(chainId)
           \o Reverse(AddressBytes(safe)) \o Zeros(21)
           \o Reverse(AddressBytes(candidate)) \o Zeros(17)

\* _extractAddressLE that keeps the order of the bytes.
extractAddressLE_NoReversal(data, offset) ==
    IF offset + 20 > Len(data) THEN <<>>
    ELSE [k \in 1..20 |-> data[offset + k]]

\* _extractAddressLE: byte i of data from offset is byte i of the address counted
\* from its least significant end. A read past the end of data panics: <<>>.
extractAddressLE(data, offset) ==
    IF offset + 20 > Len(data) THEN <<>>
    ELSE [k \in 1..20 |-> data[offset + 21 - k]]

\* _extractChainIdLE: up to three bytes, those past the end of data left out.
extractChainIdLE(data, offset) ==
    LET b(i) == IF offset + i < Len(data) THEN data[offset + i + 1] ELSE 0
    IN b(0) + 256 * b(1) + 65536 * b(2)

\* What wormhole.parseAndVerifyVM gives for the bytes raw: the core's verdict,
\* the emitter and the payload.
VM(raw, valid, emitterAddress, payload) ==
    [raw |-> raw, valid |-> valid, emitterAddress |-> emitterAddress, payload |-> payload]

\* The length test of verify with the bound of parsePayload.
payloadTooShort_AsParsePayload(payload) == Len(payload) < 75

\* The negation of the require of line 161.
payloadTooShort(payload) == Len(payload) < 116

\* The fields verify reads from a payload (those of its DebugPayload event).
verifyFields(vm) ==
    [payloadLen |-> Len(vm.payload),
     safe |-> extractAddressLE(vm.payload, 55),
     candidate |-> extractAddressLE(vm.payload, 96),
     chainId |-> extractChainIdLE(vm.payload, 52),
     emitter |-> vm.emitterAddress]

\* verify without the test of line 154.
verifyChecks_NoReplayTest(vm) ==
    LET d == verifyFields(vm)
    IN IF mPaused THEN "ModulePaused"
       ELSE IF ~vm.valid THEN "InvalidVaa"
       ELSE IF payloadTooShort(vm.payload) THEN "payload too short"
       ELSE IF d.safe = <<>> \/ d.candidate = <<>> THEN "Panic"
       ELSE IF d.chainId # ChainNumber(BlockChainId) THEN "WrongChain"
       ELSE IF AddressOf(d.safe) \notin Accounts THEN "CallFailed"
       ELSE IF isOwner(safeOwners[AddressOf(d.safe)], AddressOf(d.candidate)) THEN "ok"
       ELSE IF addOwnerWithThreshold(Acct(AddressOf(d.safe)), AddressOf(d.candidate),
                                     safeThreshold[AddressOf(d.safe)]).ok THEN "ok"
       ELSE "SafeCallFailed"

\* verify: the error it reverts with, or "ok". An account that is not a Safe
\* fails the getOwners call.
verifyChecks(vm) ==
    LET d == verifyFields(vm)
    IN IF mPaused THEN "ModulePaused"
       ELSE IF ~vm.valid THEN "InvalidVaa"
       ELSE IF vm.raw \in consumedVaas THEN "VaaAlreadyConsumed"
       ELSE IF payloadTooShort(vm.payload) THEN "payload too short"
       ELSE IF d.safe = <<>> \/ d.candidate = <<>> THEN "Panic"
       ELSE IF d.chainId # ChainNumber(BlockChainId) THEN "WrongChain"
       ELSE IF AddressOf(d.safe) \notin Accounts THEN "CallFailed"
       ELSE IF isOwner(safeOwners[AddressOf(d.safe)], AddressOf(d.candidate)) THEN "ok"
       ELSE IF addOwnerWithThreshold(Acct(AddressOf(d.safe)), AddressOf(d.candidate),
                                     safeThreshold[AddressOf(d.safe)]).ok THEN "ok"
       ELSE "SafeCallFailed"

\* A transaction calls verify: the hash is marked and the candidate added to
\* the owners of the account the payload names, or the call reverts and leaves
\* the chain as it was.
verify(vm) ==
    /\ Idle
    /\ LET status == verifyChecks(vm)
           d == verifyFields(vm)
           s == AddressOf(d.safe)
           r == addOwnerWithThreshold(Acct(s), AddressOf(d.candidate), safeThreshold[s])
       IN /\ ret' = [status |-> status, kind |-> "verify", call |-> vm, current |-> <<>>,
                     calls |-> <<>>, nested |-> <<>>, pre |-> Snapshot,
                     marks |-> consumedVaas,
                     debug |-> IF status = "ok" THEN d ELSE <<>>]
          /\ IF status # "ok"
             THEN UNCHANGED <<consumedVaas, safeOwners, safeThreshold>>
             ELSE /\ consumedVaas' = consumedVaas \cup {vm.raw}
                  /\ IF r.ok
                     THEN /\ safeOwners' = [safeOwners EXCEPT ![s] = r.owners]
                          /\ safeThreshold' = [safeThreshold EXCEPT ![s] = r.threshold]
                     ELSE UNCHANGED <<safeOwners, safeThreshold>>
    /\ UNCHANGED <<consumed, eConsumed, stack, adminVars, relayVars>>
    /\ UNCHANGED <<aztecRecoveryContract, eventLog, chainHead>>

(***************************************************************************)
(* PayloadExtractor                                                        *)
(***************************************************************************)
\* extractAndReverseAddress: the 20 bytes from offset are copied, then
\* reverseBytes20 turns them round; the error of its require otherwise.
extractAndReverseAddress(payload, offset) ==
    IF ~(Len(payload) >= offset + 20) THEN "Insufficient bytes for address"
    ELSE Reverse(SubSeq(payload, offset + 1, offset + 20))

\* extractAndReverseUint16: (uint16(byte1) << 8) | uint16(byte0).
extractAndReverseUint16(payload, offset) ==
    IF ~(Len(payload) >= offset + 2) THEN "Insufficient bytes for uint16"
    ELSE payload[offset + 2] * 256 + payload[offset + 1]

\* parsePayload: the error it reverts with and no field, or the five fields.
parsePayload(payload) ==
    IF ~(Len(payload) >= 75) THEN [status |-> "Payload too short", parsed |-> <<>>]
    ELSE [status |-> "ok",
          parsed |-> [txId |-> SubSeq(payload, 1, 32),
                      addressField5 |-> extractAndReverseAddress(payload, 32),
                      chainId |-> extractAndReverseUint16(payload, 52),
                      amount |-> payload[55],
                      addressField7 |-> extractAndReverseAddress(payload, 55)]]

\* A call of PayloadExtractor.parsePayload (a pure function: no state is
\* written); the caller gets the fields or the revert.
parsePayloadCall(payload) ==
    /\ Idle
    /\ ret' = [status |-> parsePayload(payload).status, kind |-> "parse",
               call |-> payload, current |-> <<>>, calls |-> <<>>, nested |-> <<>>,
               pre |-> Snapshot, marks |-> consumedVaas,
               parsed |-> parsePayload(payload).parsed]
    /\ UNCHANGED <<txVars, stack, adminVars, relayVars, moduleVars>>

\* The two address decoders applied to the same bytes and offset (internal
\* functions: pure, no state is written); the caller gets both answers.
extractAddressCall(payload, offset) ==
    /\ Idle
    /\ ret' = [status |-> IF extractAddressLE(payload, offset) = <<>>
                          THEN "Panic" ELSE "ok",
               kind |-> "address", call |-> [payload |-> payload, offset |-> offset],
               current |-> <<>>, calls |-> <<>>, nested |-> <<>>, pre |-> Snapshot,
               marks |-> consumedVaas,
               reversed |-> extractAndReverseAddress(payload, offset),
               le |-> extractAddressLE(payload, offset)]
    /\ UNCHANGED <<txVars, stack, adminVars, relayVars, moduleVars>>

(***************************************************************************)
(* The tuple payload of validate: abi.encode and abi.decode                *)
(***************************************************************************)
\* A payload of this layout is a sequence of words of 32 bytes. An unsigned
\* value (below 2^24 in the model) is right-aligned in its word, an address too.
UintWord(n) == Zeros(29) \o <<(n \div 65536) % 256, (n \div 256) % 256, n % 256>>
WordValue(w) == w[30] * 65536 + w[31] * 256 + w[32]
AddressWord(a) == Zeros(12) \o AddressBytes(a)
NonceWord(n) == <<110, IF n = "n1" THEN 1 ELSE 2>> \o Zeros(30)
NonceOf(w) == CHOOSE n \in Nonces : NonceWord(n) = w
ChainOf(n) == IF n = ChainNumber(BlockChainId) THEN BlockChainId ELSE "elsewhere"

\* abi.encode(version, chainId, safe, owners, threshold, nonce, expiry): seven
\* head words, the fourth the offset of the array in bytes, then the length of
\* the array and its elements.
abiEncode(t) ==
    <<UintWord(t.version), UintWord(ChainNumber(t.chainId)), AddressWord(t.safe),
      UintWord(7 * 32), UintWord(t.threshold), NonceWord(t.nonce), UintWord(t.expiry)>>
        \o <<UintWord(Len(t.owners))>>
        \o [k \in 1..Len(t.owners) |-> AddressWord(t.owners[k])]

\* The first k bytes of a word are zero: the value fits the narrower type.
Fits(w, k) == \A j \in 1..k : w[j] = 0

\* abi.decode(payload, (uint8, uint256, address, address[], uint256, bytes32,
\* uint64)): the seven fields, or a revert when the payload is too short for its
\* head or its array, or a word does not fit its type.
abiDecode(words) ==
    LET at == WordValue(words[4]) \div 32
        n == WordValue(words[at + 1])
        reverted == [status |-> "revert", fields |-> <<>>]
    IN IF Len(words) < 7 THEN reverted
       ELSE IF ~Fits(words[1], 31) \/ ~Fits(words[3], 12) \/ ~Fits(words[7], 24)
       THEN reverted
       ELSE IF at + 1 > Len(words) THEN reverted
       ELSE IF at + 1 + n > Len(words) THEN reverted
       ELSE IF \E k \in 1..n : ~Fits(words[at + 1 + k], 12) THEN reverted
       ELSE [status |-> "ok",
             fields |-> [version |-> WordValue(words[1]),
                         chainId |-> ChainOf(WordValue(words[2])),
                         safe |-> AddressOf(SubSeq(words[3], 13, 32)),
                         owners |-> [k \in 1..n |->
                                        AddressOf(SubSeq(words[at + 1 + k], 13, 32))],
                         threshold |-> WordValue(words[5]),
                         nonce |-> NonceOf(words[6]),
                         expiry |-> WordValue(words[7])]]

\* The decoding step of validate on a payload, seen from its caller.
abiDecodeCall(payload) ==
    /\ Idle
    /\ ret' = [status |-> abiDecode(payload).status, kind |-> "decode",
               call |-> payload, current |-> <<>>, calls |-> <<>>, nested |-> <<>>,
               pre |-> Snapshot, marks |-> consumedVaas,
               fields |-> abiDecode(payload).fields]
    /\ UNCHANGED <<txVars, stack, adminVars, relayVars, moduleVars>>

(***************************************************************************)
(* Initial states                                                          *)
(***************************************************************************)
\* The module before any registration, at the deployment block.
ModuleFresh ==
    /\ aztecRecoveryContract = [a \in Callers |-> NoContract]
    /\ eventLog = <<>>
    /\ chainHead = emitterScanStartBlock
    /\ consumedVaas = {}

\* The module after S1 has registered ContractA in the deployment block.
ModuleStart ==
    /\ aztecRecoveryContract = [a \in Callers |-> IF a = "S1" THEN ContractA ELSE NoContract]
    /\ eventLog = <<RegistrationLog(emitterScanStartBlock, "S1", ContractA)>>
    /\ chainHead = emitterScanStartBlock
    /\ consumedVaas = {}

\* The contracts just deployed: nothing authorized, nothing consumed.
ContractsDeployed ==
    /\ consumed = {}
    /\ authorizedModules = {}
    /\ vPaused = FALSE
    /\ vOwner = "deployer"
    /\ mPaused = FALSE
    /\ eConsumed = {}
    /\ authorizedAccounts = {}
    /\ ePaused = FALSE
    /\ safeOwners = [s \in Accounts |-> InitialOwners]
    /\ safeThreshold = [s \in Accounts |-> 1]
    /\ blockTime = 0
    /\ stack = <<>>
    /\ ret = NoRet

ChainDeployed == ModuleStart /\ ContractsDeployed

\* The deployment set up: the validator's owner has authorized the module, and
\* the account S1 has installed the executor module (onInstall called by S1).
ChainConfigured(owners, threshold) ==
    /\ ModuleStart
    /\ consumed = {}
    /\ authorizedModules = {"module"}
    /\ vPaused = FALSE
    /\ vOwner = "deployer"
    /\ mPaused = FALSE
    /\ eConsumed = {}
    /\ authorizedAccounts = {"S1"}
    /\ ePaused = FALSE
    /\ safeOwners = [s \in Accounts |-> IF s = "S1" THEN owners ELSE InitialOwners]
    /\ safeThreshold = [s \in Accounts |-> IF s = "S1" THEN threshold ELSE 1]
    /\ blockTime = 0
    /\ stack = <<>>
    /\ ret = NoRet

(***************************************************************************)
(* Specifications                                                          *)
(***************************************************************************)
\* The relay alone.
RelayInit == RelayStart /\ ChainDeployed
RelaySpec == RelayInit /\ [][RelayNext]_vars

\* The submission path: two messages that both go to the destination chain,
\* every answer of the node, a gas price that moves between attempts.
SendFeed == { b \in VAABytes : b.raw \in {"good", "good2"} }
Quotes ==
    {Quote(TRUE, 0, 0)}
    \cup { Quote(FALSE, c, p) : c \in 0..MaxDeliveries, p \in GasPrices }

SendInit == RelayStart /\ ChainDeployed
SendNext ==
    \/ \E b \in SendFeed : Receive(b)
    \/ \E w \in WorkerIds : WorkerProcess(w)
    \/ \E w \in WorkerIds : WorkerLock(w)
    \/ \E w \in WorkerIds, q \in Quotes : WorkerFetch(w, q)
    \/ \E w \in WorkerIds, a \in SendAnswers : WorkerSend(w, a)
    \/ \E w \in WorkerIds : WorkerFinish(w)
SendSpec == SendInit /\ [][SendNext]_vars

\* The life of Start: messages good and bad, stream errors and reconnects, the
\* shutdown signal, the workers on their way.
LifeFeed == { b \in VAABytes : b.raw \in {"good", "broken", "other", "unreg"} }

LifeInit == RelayStart /\ ChainDeployed
LifeNext ==
    \/ \E b \in LifeFeed : Receive(b)
    \/ StreamError
    \/ \E n \in 0..SubscribeRetries : Resubscribe(n)
    \/ Shutdown
    \/ StartCancel
    \/ StartReturn
    \/ \E w \in WorkerIds : WorkerProcess(w)
    \/ \E w \in WorkerIds : WorkerLock(w)
    \/ \E w \in WorkerIds, q \in RelayQuotes : WorkerFetch(w, q)
    \/ \E w \in WorkerIds, a \in SendAnswers : WorkerSend(w, a)
    \/ \E w \in WorkerIds : WorkerFinish(w)
LifeSpec == LifeInit /\ [][LifeNext]_vars

\* The emitter filter: every configuration of the two emitter settings, the
\* registry of the start and registrations arriving, messages from registered
\* and unregistered emitters, from another chain and for another account.
EmitFeed == { b \in VAABytes : b.raw \in {"good", "other", "unreg", "alias", "cross"} }
EnvValues ==
    {Unset, SetTo(StrTrue), SetTo(StrOne), SetTo(<<84, 82, 85, 69>>), SetTo(<<48>>), SetTo(<<>>)}
EnvEmitters == {Unset, SetTo(<<>>), SetTo(EncodeToString(ContractB))}

EmitInit ==
    /\ \E a \in EnvValues, e \in EnvEmitters :
          RelayStartUnder([DeployedEnv EXCEPT !.ACCEPT_ANY_EMITTER = a,
                                              !.EMITTER_ADDRESS = e])
    /\ ChainDeployed
EmitNext ==
    \/ \E b \in EmitFeed : Receive(b)
    \/ \E c \in Contracts, a \in Accounts : setAztecRecoveryContract(a, a, c)
    \/ WatchLog
    \/ \E w \in WorkerIds : WorkerProcess(w)
    \/ \E w \in WorkerIds : WorkerLock(w)
    \/ \E w \in WorkerIds, q \in RelayQuotes : WorkerFetch(w, q)
    \/ \E w \in WorkerIds, a \in {"ok", "error"} : WorkerSend(w, a)
    \/ \E w \in WorkerIds : WorkerFinish(w)
EmitSpec == EmitInit /\ [][EmitNext]_vars

\* The registry and its watcher: accounts register contracts while the relay
\* starts, scans, subscribes or polls; scans and subscriptions may fail.
WatchInit == RelayNewUnder(DeployedEnv) /\ ModuleFresh /\ ContractsDeployed
WatchNext ==
    \/ NewRelayer(FALSE)
    \/ \E f \in BOOLEAN : StartLoad(f)
    \/ StartSubscribe(0)
    \/ \E b \in BOOLEAN : WatchBegin(b)
    \/ WatchLog
    \/ WatchError
    \/ WatchRestart
    \/ \E bf, ff \in BOOLEAN : PollTick(bf, ff)
    \/ Shutdown
    \/ WatchDone
    \/ NewBlock
    \/ \E c \in Contracts, a \in Accounts : setAztecRecoveryContract(a, a, c)
WatchSpec == WatchInit /\ [][WatchNext]_vars

\* Startup: every combination of a signer key (absent, empty, too short, good,
\* good with its 0x prefix) and a target contract (absent or set), the
\* accept-any override off or on; then the relay as far as it gets.
BootKeys ==
    {Unset, SetTo(<<>>), SetTo(<<49, 49>>), SetTo(SignerKey), SetTo(<<48, 120>> \o SignerKey)}
BootTargets == {Unset, SetTo(<<>>), SetTo(ModuleHex)}
BootFeed == { b \in VAABytes : b.raw \in {"good", "unreg"} }

BootInit ==
    /\ \E k \in BootKeys, c \in BootTargets, a \in {Unset, SetTo(StrTrue)} :
          RelayNewUnder([DeployedEnv EXCEPT !.PRIVATE_KEY = k,
                                            !.EVM_TARGET_CONTRACT = c,
                                            !.ACCEPT_ANY_EMITTER = a])
    /\ ChainDeployed
BootNext ==
    \/ \E d \in BOOLEAN : NewRelayer(d)
    \/ \E f \in BOOLEAN : StartLoad(f)
    \/ \E n \in {0, SubscribeRetries} : StartSubscribe(n)
    \/ WatchBegin(TRUE)
    \/ \E b \in BootFeed : Receive(b)
    \/ \E w \in WorkerIds : WorkerProcess(w)
    \/ \E w \in WorkerIds : WorkerLock(w)
    \/ \E w \in WorkerIds, q \in RelayQuotes : WorkerFetch(w, q)
    \/ \E w \in WorkerIds, a \in {"ok", "error"} : WorkerSend(w, a)
    \/ \E w \in WorkerIds : WorkerFinish(w)
BootSpec == BootInit /\ [][BootNext]_vars

\* The validator under administration: every sender's administrative calls, and
\* recoveries of S1 by two attestations that differ in their nonce.
AdminCalls ==
    { ExactCall(Intent("S1", <<"A", "D">>, 1, n, MaxBlockTime)) : n \in Nonces }

AdminInit == RelayStart /\ ChainDeployed
AdminNext ==
    \/ \E c \in AdminCalls : applyRecovery(c)
    \/ StepAdd
    \/ StepRemove
    \/ StepThreshold
    \/ StepConsume
    \/ Reenter
    \/ Return
    \/ \E s \in Senders, o \in Senders : setOwner(s, o)
    \/ \E s \in Senders, v \in BOOLEAN : setPaused(s, v)
    \/ \E s \in Senders, m \in ModuleAddrs, a \in BOOLEAN : setModuleAuthorized(s, m, a)
    \/ \E m \in ModuleAddrs, l \in BOOLEAN : onInstall([long |-> l, module |-> m])
    \/ \E m \in ModuleAddrs, n \in Nonces : markConsumed(m, n)
    \/ \E s \in Senders, v \in BOOLEAN : moduleSetPaused(s, v)
    \/ TickBlock
AdminSpec == AdminInit /\ [][AdminNext]_vars

\* The guard: recoveries with every defect of the attestation's header, with
\* call arguments that depart from the attestation, and with attestations that
\* share a nonce and differ in owners and threshold.
Expiries == 1..MaxBlockTime
AttestedOwners == {<<"A", "D">>, <<"D">>}
ArgumentOwners == {<<"A", "D">>, <<"D", "A">>, <<"A">>, <<"A", "D", "B">>}
Thresholds == 1..MaxTargetOwners

HeaderVAAs ==
    { Attestation(v, ver, c, "S1", <<"A", "D">>, 1, n, e) :
        v \in BOOLEAN, ver \in {1, 2}, c \in ChainIds, n \in Nonces, e \in Expiries }
IntentVAAs ==
    { Intent("S1", o, t, n, e) :
        o \in AttestedOwners, t \in Thresholds, n \in Nonces, e \in Expiries }
GuardVAAs == HeaderVAAs \cup IntentVAAs
MismatchCalls ==
    { Call(s, o, t, n, Intent("S1", <<"A", "D">>, 1, "n1", MaxBlockTime)) :
        s \in Accounts, o \in ArgumentOwners, t \in Thresholds, n \in Nonces }
GuardCalls == { ExactCall(v) : v \in GuardVAAs } \cup MismatchCalls

GuardInit == RelayStart /\ ChainConfigured(InitialOwners, 1)
GuardNext ==
    \/ \E c \in GuardCalls : applyRecovery(c)
    \/ \E s \in Accounts, v \in GuardVAAs : executeRecovery(s, v)
    \/ StepAdd
    \/ StepRemove
    \/ StepThreshold
    \/ StepConsume
    \/ StepExec
    \/ Reenter
    \/ Return
    \/ TickBlock
GuardSpec == GuardInit /\ [][GuardNext]_vars

\* The reconciler: every account state of up to MaxOwners owners, every target
\* of up to MaxTargetOwners owners, under an attestation that passes.
AccountLists == { s \in SeqsUpTo(Owners, MaxOwners) : NoDup(s) }
TargetLists == SeqsUpTo(Owners, MaxTargetOwners)
ReconCalls ==
    { ExactCall(Intent("S1", o, t, "n1", MaxBlockTime)) :
        o \in TargetLists, t \in Thresholds }

ReconInit ==
    /\ RelayStart
    /\ \E o \in AccountLists : \E t \in 1..Len(o) : ChainConfigured(o, t)
ReconNext ==
    \/ \E c \in ReconCalls : applyRecovery(c)
    \/ StepAdd
    \/ StepRemove
    \/ StepThreshold
    \/ StepConsume
    \/ Return
ReconSpec == ReconInit /\ [][ReconNext]_vars

\* The module's bindings: registrations by every caller, for any account, beside
\* recoveries of S1 through applyRecovery, executeRecovery and verify.
BindVMs ==
    { VM(<<"bind", c>>, TRUE, ContractA,
         CompactPayload(TxHash(1), "module", ChainNumber(BlockChainId), "S1", c)) :
        c \in {"A", "D"} }
BindCall == ExactCall(Intent("S1", <<"A", "D">>, 1, "n1", MaxBlockTime))

BindInit == RelayStart /\ ChainConfigured(InitialOwners, 1)
BindNext ==
    \/ \E sender \in Callers, safe \in Accounts, c \in Contracts :
           setAztecRecoveryContract(sender, safe, c)
    \/ \E vm \in BindVMs : verify(vm)
    \/ applyRecovery(BindCall)
    \/ executeRecovery("S1", BindCall.vaa)
    \/ StepAdd
    \/ StepRemove
    \/ StepThreshold
    \/ StepConsume
    \/ StepExec
    \/ Return
BindSpec == BindInit /\ [][BindNext]_vars

\* The payload decoders: parsePayload and verify on the payloads of the compact
\* layout for every chain, account and candidate, and on the prefixes of one of
\* them; the core finds some messages invalid.
CompactFields ==
    { [txId |-> t, module |-> "module", chainId |-> c, safe |-> a, candidate |-> o] :
        t \in TxIds, c \in ChainIds, a \in Accounts, o \in {"D", ZeroAddress} }
encodeCompact(i) ==
    CompactPayload(TxHash(i.txId), i.module, ChainNumber(i.chainId), i.safe, i.candidate)
\* The prefixes of a payload up to the first that verify takes.
Prefixes(payload) == { SubSeq(payload, 1, n) : n \in 0..116 }
CodecPayloads ==
    { encodeCompact(i) : i \in CompactFields }
        \cup Prefixes(encodeCompact([txId |-> 1, module |-> "module",
                                     chainId |-> BlockChainId, safe |-> "S1",
                                     candidate |-> "D"]))
CodecVMs ==
    { VM(p, TRUE, ContractA, p) : p \in CodecPayloads }
        \cup { VM(<<0>>, FALSE, ContractA, <<>>) }

\* The intents of the tuple layout, and their payloads whole or cut short.
TupleFields ==
    { [version |-> 1, chainId |-> c, safe |-> a, owners |-> o, threshold |-> t,
       nonce |-> n, expiry |-> e] :
        c \in ChainIds, a \in Accounts, o \in ArgumentOwners, t \in Thresholds,
        n \in Nonces, e \in Expiries }
TuplePayloads ==
    { abiEncode(i) : i \in TupleFields }
        \cup { SubSeq(abiEncode(i), 1, k) : i \in TupleFields, k \in {6, 8} }

CodecInit == RelayStart /\ ChainConfigured(InitialOwners, 1)
CodecNext ==
    \/ \E vm \in CodecVMs : verify(vm)
    \/ \E p \in CodecPayloads : parsePayloadCall(p)
    \/ \E p \in TuplePayloads : abiDecodeCall(p)
    \/ \E v \in BOOLEAN : moduleSetPaused("deployer", v)
    \/ Return
CodecSpec == CodecInit /\ [][CodecNext]_vars

\* The order of validate's tests: calls by an authorized and by an unauthorized
\* address, with every defect of the header and of the arguments, while the
\* owner authorizes modules, nonces are consumed and time passes.
OrderCalls == { ExactCall(v) : v \in HeaderVAAs } \cup MismatchCalls

OrderInit == RelayStart /\ ChainDeployed
OrderNext ==
    \/ \E m \in ModuleAddrs, c \in OrderCalls : validateCall(m, c)
    \/ \E m \in ModuleAddrs, a \in BOOLEAN : setModuleAuthorized("deployer", m, a)
    \/ \E m \in ModuleAddrs, n \in Nonces : markConsumed(m, n)
    \/ TickBlock
    \/ Return
OrderSpec == OrderInit /\ [][OrderNext]_vars

\* The waits of the relay around a shutdown: the receive loop with stream errors
\* and reconnects, the registration watcher with subscription errors and
\* restarts, the workers with their submissions and nonce conflicts. The steps
\* that a cancelled context enables are taken sooner or later (ctx.Done() is
\* selected, the stream and the subscription end); the expiry of a time.Sleep
\* and the answer of the node are not hurried: they may take arbitrarily long.
WaitFeed == { b \in VAABytes : b.raw \in {"good"} }

WaitInit == RelayStart /\ ChainDeployed
WaitNext ==
    \/ \E b \in WaitFeed : Receive(b)
    \/ StreamError
    \/ \E n \in {0, SubscribeRetries} : Resubscribe(n)
    \/ Shutdown
    \/ StartCancel
    \/ StartReturn
    \/ WatchBegin(TRUE)
    \/ WatchError
    \/ WatchRestart
    \/ WatchDone
    \/ \E w \in WorkerIds : WorkerProcess(w)
    \/ \E w \in WorkerIds : WorkerLock(w)
    \/ \E w \in WorkerIds, q \in RelayQuotes : WorkerFetch(w, q)
    \/ \E w \in WorkerIds, a \in SendAnswers : WorkerSend(w, a)
    \/ \E w \in WorkerIds : WorkerFinish(w)
WaitSpec ==
    WaitInit /\ [][WaitNext]_vars /\ WF_vars(StartCancel) /\ WF_vars(WatchDone)

\* The validator's ledger under recoveries of two accounts: S1 and S2 are each
\* recovered to the owners [A, D], by attestations that pass every check and
\* share their nonces.
ScopeCalls ==
    { ExactCall(Intent(s, <<"A", "D">>, 1, n, MaxBlockTime)) :
        s \in Accounts, n \in Nonces }

ScopeInit == RelayStart /\ ChainConfigured(InitialOwners, 1)
ScopeNext ==
    \/ \E c \in ScopeCalls : applyRecovery(c)
    \/ StepAdd
    \/ StepRemove
    \/ StepThreshold
    \/ StepConsume
    \/ Return
    \/ TickBlock
ScopeSpec == ScopeInit /\ [][ScopeNext]_vars

\* The address decoders on their own: every prefix of a payload whose bytes all
\* differ and of a payload of the compact layout, read at every offset up to
\* MaxOffset.
MaxRamp == 24
MaxOffset == 5
Ramp == [k \in 1..MaxRamp |-> k]
AddressPayloads ==
    { SubSeq(Ramp, 1, n) : n \in 0..MaxRamp }
        \cup { SubSeq(encodeCompact([txId |-> 1, module |-> "module",
                                     chainId |-> BlockChainId, safe |-> "S1",
                                     candidate |-> "D"]), 1, n) : n \in {74, 75, 115, 116} }
AddressOffsets == 0..MaxOffset \cup {32, 55, 96}

DecodeInit == RelayStart /\ ChainConfigured(InitialOwners, 1)
DecodeNext ==
    \/ \E p \in AddressPayloads, o \in AddressOffsets : extractAddressCall(p, o)
    \/ Return
DecodeSpec == DecodeInit /\ [][DecodeNext]_vars

\* The workers to their end: two messages that both go to the destination
\* chain, and every answer of the node. Every call a worker makes returns (the
\* node answers, or the call's context, 60 s, cuts it), so a worker that can
\* take a step takes one; and a worker that waits for the submission lock gets
\* it once it is free often enough (sync.Mutex hands the lock to a waiter that
\* has been starved).
DrainInit == RelayStart /\ ChainDeployed
DrainNext ==
    \/ \E b \in SendFeed : Receive(b)
    \/ \E w \in WorkerIds : WorkerProcess(w)
    \/ \E w \in WorkerIds : WorkerLock(w)
    \/ \E w \in WorkerIds, q \in RelayQuotes : WorkerFetch(w, q)
    \/ \E w \in WorkerIds, a \in SendAnswers : WorkerSend(w, a)
    \/ \E w \in WorkerIds : WorkerFinish(w)
WorkerStep(w) ==
    \/ WorkerProcess(w)
    \/ \E q \in RelayQuotes : WorkerFetch(w, q)
    \/ \E a \in SendAnswers : WorkerSend(w, a)
    \/ WorkerFinish(w)
WorkerFairness(w) == WF_vars(WorkerStep(w)) /\ SF_vars(WorkerLock(w))
DrainSpec ==
    DrainInit /\ [][DrainNext]_vars /\ \A w \in WorkerIds : WorkerFairness(w)

\* The registry while the relay runs and is not shut down: S1 has registered
\* ContractA in the deployment block, accounts register contracts at any time;
\* the bootstrap scan may fail, the subscription may be unsupported or break,
\* a tick of the poller may fail to read the block number. The relay takes the
\* steps it can take: it starts, subscribes or polls, reads the logs the
\* subscription delivers, restarts after its sleep, and the poller's tick
\* succeeds again and again.
RegistryInit == RelayNewUnder(DeployedEnv) /\ ModuleStart /\ ContractsDeployed
RegistryNext ==
    \/ NewRelayer(FALSE)
    \/ \E f \in BOOLEAN : StartLoad(f)
    \/ StartSubscribe(0)
    \/ \E b \in BOOLEAN : WatchBegin(b)
    \/ WatchLog
    \/ WatchError
    \/ WatchRestart
    \/ \E bf \in BOOLEAN : PollTick(bf, FALSE)
    \/ NewBlock
    \/ \E c \in Contracts, a \in Accounts : setAztecRecoveryContract(a, a, c)
RegistrySpec ==
    /\ RegistryInit
    /\ [][RegistryNext]_vars
    /\ WF_vars(NewRelayer(FALSE))
    /\ WF_vars(\E f \in BOOLEAN : StartLoad(f))
    /\ WF_vars(\E b \in BOOLEAN : WatchBegin(b))
    /\ WF_vars(WatchLog)
    /\ WF_vars(WatchRestart)
    /\ WF_vars(PollTick(FALSE, FALSE))

\* The validator's ledger and its callers: the deployment as configured by the
\* owner (the module authorized, nobody else), recoveries of S1 through the
\* module, and the calls of an address that is not the owner: onInstall with
\* any data, setModuleAuthorized, markConsumed with any nonce. The owner makes
\* no call, and the module calls markConsumed from applyRecovery only.
LedgerInit == RelayStart /\ ChainConfigured(InitialOwners, 1)
LedgerNext ==
    \/ \E c \in AdminCalls : applyRecovery(c)
    \/ StepAdd
    \/ StepRemove
    \/ StepThreshold
    \/ StepConsume
    \/ Return
    \/ \E m \in ModuleAddrs, l \in BOOLEAN : onInstallCall("stranger", [long |-> l, module |-> m])
    \/ \E n \in Nonces : markConsumed("stranger", n)
    \/ \E m \in ModuleAddrs, a \in BOOLEAN : setModuleAuthorizedCall("stranger", m, a)
    \/ TickBlock
LedgerSpec == LedgerInit /\ [][LedgerNext]_vars
\* The source of an attestation: S1 registers either source contract, and
\* verify is called with valid attestations for S1 that either contract, or an
\* emitter nobody registered, has published.
SourceEmitters == Contracts \cup {NoContract}
SourceVMs ==
    { VM(<<"source", e, c>>, TRUE, e,
         CompactPayload(TxHash(1), "module", ChainNumber(BlockChainId), "S1", c)) :
        e \in SourceEmitters, c \in {"A", "D"} }
SourceInit == RelayStart /\ ChainConfigured(InitialOwners, 1)
SourceNext ==
    \/ \E c \in Contracts : setAztecRecoveryContract("S1", "S1", c)
    \/ \E vm \in SourceVMs : verify(vm)
    \/ Return
SourceSpec == SourceInit /\ [][SourceNext]_vars
\* The success cache and the skipped messages: a message of an emitter that is
\* not registered yet, a message of another chain and one that is submitted,
\* delivered again while time passes and while S1 registers ContractB.
CacheFeed == { b \in VAABytes : b.raw \in {"good", "other", "unreg"} }
CacheInit == RelayStart /\ ChainDeployed
CacheNext ==
    \/ \E b \in CacheFeed : Receive(b)
    \/ setAztecRecoveryContract("S1", "S1", ContractB)
    \/ WatchLog
    \/ \E w \in WorkerIds : WorkerProcess(w)
    \/ \E w \in WorkerIds : WorkerLock(w)
    \/ \E w \in WorkerIds, q \in RelayQuotes : WorkerFetch(w, q)
    \/ \E w \in WorkerIds, a \in {"ok", "error"} : WorkerSend(w, a)
    \/ \E w \in WorkerIds : WorkerFinish(w)
    \/ Tick
CacheSpec == CacheInit /\ [][CacheNext]_vars



(***************************************************************************)
(* Relay: the dedup gate's properties                                      *)
(***************************************************************************)
ActiveWorkers(key) ==
    { w \in WorkerIds : workers[w].pc # "free" /\ computeVAAKey(workers[w].vaa) = key }

\* This step is an iteration of Start's loop that received a message.
ReceiveStep == Len(deliveries') = Len(deliveries) + 1

\* C1: at every moment a key has at most one active worker, exactly one when
\* the key is in flight; and a delivery of a key that is in flight is dropped,
\* with no worker spawned, nothing submitted and the dedup ledger unchanged.
C1_OneWorkerPerKey ==
    /\ [](\A k \in Keys :
            Cardinality(ActiveWorkers(k)) = IF k \in inflightVAAs THEN 1 ELSE 0)
    /\ [][ (ReceiveStep /\ Last(deliveries').key \in inflightVAAs)
             => /\ ~Last(deliveries').admitted
                /\ UNCHANGED <<workers, inflightVAAs, processedVAAs, sendLog,
                               nonceMu, outcome>> ]_vars

\* A delivery arrived while a worker of its key was running, and was dropped.
C1_Witness ==
    /\ deliveries # <<>>
    /\ Last(deliveries).after = "running"
    /\ ~Last(deliveries).admitted
    /\ Cardinality(ActiveWorkers(Last(deliveries).key)) = 1

\* C2: once the latest worker of a key has failed, the key is neither in flight
\* nor in the success cache, and a delivery of the key that arrives then is
\* admitted and gets a worker.
C2_FailureNotCached ==
    /\ [](\A k \in Keys : outcome[k] = "failed"
            => k \notin inflightVAAs /\ k \notin DOMAIN processedVAAs)
    /\ [][ (ReceiveStep /\ outcome[Last(deliveries').key] = "failed")
             => /\ Last(deliveries').admitted
                /\ Last(deliveries').key \in inflightVAAs'
                /\ \E w \in WorkerIds :
                      /\ workers[w].pc = "free"
                      /\ workers'[w].pc = "start"
                      /\ computeVAAKey(workers'[w].vaa) = Last(deliveries').key ]_vars

\* A delivery that followed a failed attempt on the same bytes was admitted.
C2_Witness ==
    \E i \in DOMAIN deliveries :
        /\ deliveries[i].after = "failed"
        /\ deliveries[i].admitted
        /\ \E j \in 1..(i - 1) : deliveries[j].key = deliveries[i].key

\* The messages defaultVAAProcessor submits: decodable, from the source chain,
\* from a registered emitter.
Submittable(key) ==
    \E b \in VAABytes :
        /\ computeVAAKey(b) = key
        /\ processDecision(b, FALSE, acceptAnyEmitter, EmitterAddress(env),
                           registeredEmitters) = "submit"

\* C3 as stated: two deliveries of the same (submittable) bytes within the TTL
\* of each other lead to exactly one call of SendVerifyTransaction for them.
C3_ExactlyOneSubmission ==
    \A i, j \in DOMAIN deliveries :
        ( /\ i < j
          /\ deliveries[i].key = deliveries[j].key
          /\ deliveries[j].t - deliveries[i].t < DedupeTTL
          /\ Submittable(deliveries[i].key)
          /\ ActiveWorkers(deliveries[i].key) = {} )
        => Len(sendLog[deliveries[i].key]) = 1

\* C3, amended: of two deliveries of the same bytes within the TTL of each
\* other, the second is dropped when the first was admitted and its worker is
\* running or has succeeded; and two calls of SendVerifyTransaction for the same
\* bytes start within the TTL of each other only if the earlier one failed.
C3_AtMostOneAcceptedSubmission ==
    /\ \A i, j \in DOMAIN deliveries :
          ( /\ i < j
            /\ deliveries[i].key = deliveries[j].key
            /\ deliveries[j].t - deliveries[i].t < DedupeTTL
            /\ deliveries[i].admitted
            /\ deliveries[j].after \in {"running", "ok"} )
          => ~deliveries[j].admitted
    /\ \A k \in Keys : \A i, j \in DOMAIN sendLog[k] :
          (i < j /\ sendLog[k][j].t - sendLog[k][i].t < DedupeTTL)
          => sendLog[k][i].result = "error"

\* The first delivery was submitted and accepted, the second arrived within the
\* TTL and was dropped: one call of SendVerifyTransaction in all.
C3_Witness ==
    \E i, j \in DOMAIN deliveries :
        /\ i < j
        /\ deliveries[i].key = deliveries[j].key
        /\ deliveries[j].t - deliveries[i].t < DedupeTTL
        /\ deliveries[j].after = "ok"
        /\ ~deliveries[j].admitted
        /\ Len(sendLog[deliveries[i].key]) = 1
        /\ sendLog[deliveries[i].key][1].result = "ok"

(***************************************************************************)
(* Chain: the replay and authorization guard's properties                  *)
(***************************************************************************)
\* The consumed set as committed: during a transaction, the set the transaction
\* started from (what a revert restores and every other transaction sees).
Committed == IF stack = <<>> THEN consumed ELSE stack[1].saved.consumed

\* The pause flags are down and the module is authorized: validate gets as far
\* as the attestation.
GuardUp == ~mPaused /\ ~vPaused /\ "module" \in authorizedModules

\* The header of the attestation passes: verdict, version, chain.
HeaderOk(vaa) == vaa.valid /\ vaa.version = 1 /\ vaa.chainId = BlockChainId

\* The literal arguments of the call repeat the attested intent.
ArgsMatch(call) ==
    /\ call.targetSafe = call.vaa.safe
    /\ call.newOwners = call.vaa.owners
    /\ call.newThreshold = call.vaa.threshold
    /\ call.nonce = call.vaa.nonce

\* A transaction that called applyRecovery has just ended.
ApplyEnded == ret.status # "none" /\ ret.kind = "apply"

\* C4: the committed consumed set of the validator never loses a nonce,
\* whatever is called (recoveries, markConsumed, pause and unpause, owner and
\* authorization changes); and no applyRecovery called once the nonce of its
\* attestation is consumed gets past validation, the outermost call of a
\* transaction and a nested one alike.
C4_ConsumedIsTerminal ==
    /\ [][Committed \subseteq Committed']_vars
    /\ [](\A k \in DOMAIN stack :
             stack[k].kind = "apply"
             => stack[k].call.vaa.nonce \notin stack[k].saved.consumed)
    /\ []((ApplyEnded /\ ret.status = "ok") => ret.call.vaa.nonce \notin ret.pre.consumed)

\* After the ownership of the validator has changed hands, an applyRecovery
\* carrying a consumed nonce was called and refused.
C4_Witness ==
    /\ ApplyEnded
    /\ ret.status = "NonceAlreadyConsumed"
    /\ ret.call.vaa.nonce \in consumed
    /\ vOwner = "stranger"

\* C5: an applyRecovery whose attestation carries a nonce that is consumed when
\* it is called does not succeed and leaves owners, thresholds and consumed
\* nonces as they were; when the checks that validate makes before the replay
\* test pass (pause flags, authorization, verdict, version, chain, expiry), the
\* error is NonceAlreadyConsumed, whatever the owners and threshold of the call.
C5_ConsumedNonceRejected ==
    (ApplyEnded /\ ret.call.vaa.nonce \in ret.pre.consumed)
    => /\ ret.status # "ok"
       /\ ret.calls = <<>>
       /\ Snapshot = ret.pre
       /\ (GuardUp /\ HeaderOk(ret.call.vaa) /\ blockTime <= ret.call.vaa.expiry)
          => ret.status = "NonceAlreadyConsumed"

\* The first application made the owners [A, D]; a second one, attested for
\* the owners [D] under the same nonce, was refused with NonceAlreadyConsumed.
C5_Witness ==
    /\ ApplyEnded
    /\ ret.status = "NonceAlreadyConsumed"
    /\ consumed = {ret.call.vaa.nonce}
    /\ eConsumed = {}
    /\ safeOwners["S1"] = <<"A", "D">>
    /\ ret.call.vaa.owners = <<"D">>

\* The checks of the entry point ahead of its expiry test pass.
ReachesExpiryTest ==
    IF ret.kind = "apply"
    THEN GuardUp /\ HeaderOk(ret.call.vaa)
    ELSE /\ ~ePaused
         /\ ret.call.targetSafe \in authorizedAccounts
         /\ HeaderOk(ret.call.vaa)
         /\ ret.call.vaa.safe = ret.call.targetSafe

\* C6: a recovery (applyRecovery and executeRecovery alike) whose attestation
\* has its expiry before block.timestamp never succeeds; when the checks ahead
\* of the expiry test pass, it is refused with Expired exactly when
\* expiry < block.timestamp, so that at block.timestamp = expiry it is not; and
\* no invocation is in progress under an attestation that has expired.
C6_ExpiryCheck ==
    /\ \A k \in DOMAIN stack : blockTime <= stack[k].call.vaa.expiry
    /\ ret.status # "none"
       => /\ (ret.call.vaa.expiry < blockTime => ret.status # "ok")
          /\ ReachesExpiryTest
             => (ret.status = "Expired" <=> ret.call.vaa.expiry < blockTime)

\* A valid attestation with an unused nonce, arguments that match, one block
\* past its expiry: refused with Expired.
C6_Witness ==
    /\ ApplyEnded
    /\ ret.status = "Expired"
    /\ HeaderOk(ret.call.vaa)
    /\ ArgsMatch(ret.call)
    /\ ret.call.vaa.nonce \notin consumed
    /\ blockTime = ret.call.vaa.expiry + 1

\* C7: an applyRecovery gets past validation only if its target account,
\* owner list (length, addresses, order), threshold and nonce equal those of
\* the attestation; a call that differs in any of them ends in an error,
\* issues no sub-call and leaves owners, thresholds and consumed nonces as
\* they were.
C7_ArgumentsEqualIntent ==
    /\ \A k \in DOMAIN stack : stack[k].kind = "apply" => ArgsMatch(stack[k].call)
    /\ (ApplyEnded /\ ~ArgsMatch(ret.call))
       => /\ ret.status # "ok"
          /\ ret.calls = <<>>
          /\ Snapshot = ret.pre

\* A call whose owner list holds the attested addresses in another order was
\* refused with OwnersMismatch and changed nothing.
C7_Witness ==
    /\ ApplyEnded
    /\ ret.status = "OwnersMismatch"
    /\ ret.call.newOwners = <<"D", "A">>
    /\ ret.call.vaa.owners = <<"A", "D">>
    /\ Snapshot = ret.pre

\* C8 as stated: while an applyRecovery is inside a sub-call of the account, a
\* nested applyRecovery with the same attestation is refused, so that no
\* second invocation under that attestation is ever in progress.
C8_NestedApplyRejected ==
    \A k \in DOMAIN stack :
        (k > 1 /\ stack[k].kind = "apply") => stack[k].call.vaa # stack[1].call.vaa

\* An applyRecovery and an applyRecovery nested in it both ran to their end
\* under one attestation.
C8_NestedApplied ==
    /\ ApplyEnded
    /\ ret.status = "ok"
    /\ \E k \in DOMAIN ret.nested : ret.nested[k] = "ok"

(***************************************************************************)
(* Chain: the reconciler's properties                                      *)
(***************************************************************************)
\* The members of list that are not in from, in the order of list.
Absent(list, from) == SelectSeq(list, LAMBDA o : ~isOwner(from, o))

SubCallOf(op, owner, threshold) == [op |-> op, owner |-> owner, threshold |-> threshold]

\* The sub-calls of a reconciliation of current to target: an add for each
\* target owner not in current, a remove for each current owner not in target,
\* one threshold-set.
ExpectedCalls(current, target, threshold) ==
    LET adds == Absent(target, current)
        removes == Absent(current, target)
    IN [k \in 1..Len(adds) |-> SubCallOf("add", adds[k], 0)]
       \o [k \in 1..Len(removes) |-> SubCallOf("remove", removes[k], 0)]
       \o <<SubCallOf("threshold", "", threshold)>>

\* The sub-calls of the log: operation and owner, or operation and threshold.
Issued(calls) ==
    [k \in DOMAIN calls |->
        IF calls[k].op = "threshold"
        THEN SubCallOf("threshold", "", calls[k].threshold)
        ELSE SubCallOf(calls[k].op, calls[k].owner, 0)]

IsPrefix(a, b) == Len(a) <= Len(b) /\ SubSeq(b, 1, Len(a)) = a

\* C9: at every point of an applyRecovery the sub-calls issued so far are the
\* first ones of: an add for each target owner absent from current, in target
\* order; a remove for each current owner absent from the target, in
\* current-list order; one threshold-set. A successful applyRecovery has issued
\* them all.
C9_SubCallOrder ==
    /\ \A k \in DOMAIN stack :
          stack[k].kind = "apply"
          => IsPrefix(Issued(stack[k].calls),
                      ExpectedCalls(stack[k].current, stack[k].call.newOwners,
                                    stack[k].call.newThreshold))
    /\ ApplyEnded
       => LET e == ExpectedCalls(ret.current, ret.call.newOwners, ret.call.newThreshold)
          IN /\ (ret.status = "ok" => Issued(ret.calls) = e)
             /\ (ret.status = "SafeCallFailed" => IsPrefix(Issued(ret.calls), e))

\* Current [A, B, C], target [A, D], threshold 1: add D, remove B, remove C,
\* set threshold 1.
C9_Witness ==
    /\ ApplyEnded
    /\ ret.status = "ok"
    /\ ret.current = <<"A", "B", "C">>
    /\ ret.call.newOwners = <<"A", "D">>
    /\ Issued(ret.calls) = <<SubCallOf("add", "D", 0), SubCallOf("remove", "B", 0),
                             SubCallOf("remove", "C", 0), SubCallOf("threshold", "", 1)>>

\* The owner, or the sentinel, just before o in list.
PrevInList(list, o) ==
    IF IndexOf(list, o) = 1 THEN Sentinel ELSE list[IndexOf(list, o) - 1]

\* Each removeOwner of the log passed the predecessor its owner had in the
\* account's list when the call was made.
RemovalsPassPredecessor(calls) ==
    \A k \in DOMAIN calls :
        (calls[k].op = "remove" /\ isOwner(calls[k].at, calls[k].owner))
        => calls[k].prev = PrevInList(calls[k].at, calls[k].owner)

\* C10 as stated: every removeOwner sub-call of applyRecovery passes the owner
\* (or the sentinel) that precedes the removed owner in the account's list as
\* it is when the call is made.
C10_PredecessorAtCallTime ==
    /\ \A k \in DOMAIN stack : RemovalsPassPredecessor(stack[k].calls)
    /\ ApplyEnded => RemovalsPassPredecessor(ret.calls)

\* Current [A, B, C], target [A, D]: C was removed with predecessor B, which
\* had been removed by the call before and was no owner any more.
C10_StalePredecessor ==
    /\ ApplyEnded
    /\ ret.status = "ok"
    /\ ret.current = <<"A", "B", "C">>
    /\ ret.call.newOwners = <<"A", "D">>
    /\ \E k \in DOMAIN ret.calls :
          /\ ret.calls[k].op = "remove"
          /\ ret.calls[k].owner = "C"
          /\ ret.calls[k].prev = "B"
          /\ ~isOwner(ret.calls[k].at, "B")

\* C11: in every state reached during a recovery application, intermediate
\* ones between two sub-calls and final ones alike, the threshold of each
\* account is at least 1 and at most the number of its owners.
C11_ThresholdWithinOwners ==
    \A s \in Accounts :
        safeThreshold[s] >= 1 /\ safeThreshold[s] <= Len(safeOwners[s])

\* In the middle of an application, after a removal, the account has exactly
\* as many owners as its threshold, and removals are still to come.
C11_Witness ==
    /\ stack # <<>>
    /\ Top.kind = "apply" /\ Top.phase = "remove"
    /\ Top.calls # <<>>
    /\ Top.calls[Len(Top.calls)].op = "remove"
    /\ safeThreshold["S1"] = Len(safeOwners["S1"])
    /\ \E j \in Top.j..Len(Top.current) : removalNeeded(Top.keep, j)

(***************************************************************************)
(* Chain: all-or-nothing                                                   *)
(***************************************************************************)
\* C12: a recovery (applyRecovery and executeRecovery alike) that ends in an
\* error, whichever sub-call failed and however many succeeded before it,
\* leaves the owner lists, the thresholds and the consumed nonces of both
\* contracts as they were before the call; a nested invocation that fails
\* leaves them as they were when it was entered.
C12_AllOrNothing ==
    /\ []((ret.status \notin {"none", "ok"}) => Snapshot = ret.pre)
    /\ [][(Len(stack) = 2 /\ Len(stack') = 1
            /\ stack'[1].nested[Len(stack'[1].nested)] # "ok")
           => Snapshot' = stack[2].saved]_vars

\* An executeRecovery whose first addOwnerWithThreshold went through and whose
\* second failed: the transaction reverted, the nonce is not consumed and the
\* owners are those from before.
C12_Witness ==
    /\ ret.status = "ExecutionFailed"
    /\ Len(ret.calls) >= 2
    /\ ret.call.vaa.nonce \notin eConsumed
    /\ Snapshot = ret.pre

(***************************************************************************)
(* Relay: the submission path's properties                                 *)
(***************************************************************************)
\* C13 as stated: within one call of SendVerifyTransaction the fee of each
\* attempt is strictly higher than the fee of every earlier attempt, and the
\* counter of an attempt about to be sent is the one the node holds for the
\* signer now, fetched after the last answer.
C13_FeeStrictlyIncreases ==
    /\ \A w \in WorkerIds : workers[w].pc = "signed" => workers[w].nonce = signerNonce
    /\ \A k \in Keys : \A c \in DOMAIN sendLog[k] :
          \A i, j \in DOMAIN sendLog[k][c].fees :
              i < j => sendLog[k][c].fees[i] < sendLog[k][c].fees[j]

\* Two nonce conflicts under a steady suggested price of 10: the fees of the
\* three attempts are 10, 12 and 12.
C13_FeeRepeated ==
    \E k \in Keys : \E c \in DOMAIN sendLog[k] : sendLog[k][c].fees = <<10, 12, 12>>

\* C14: a call of SendVerifyTransaction sends at most MaxRetries (3)
\* transactions; every answer but the last of a call is a nonce conflict, so
\* that any other error ends the call at once; a call whose third answer is a
\* nonce conflict ends in an error; and the worker of a call that ended in an
\* error finishes with its message recorded as failed and not cached.
C14_BoundedRetry ==
    /\ \A k \in Keys : \A c \in DOMAIN sendLog[k] :
          LET call == sendLog[k][c]
              n == Len(call.answers)
          IN /\ call.attempts = n /\ n <= MaxRetries
             /\ \A i \in 1..(n - 1) : call.answers[i] = "nonce"
             /\ (call.result = "pending") =>
                   (c = Len(sendLog[k]) /\ \A i \in 1..n : call.answers[i] = "nonce"
                    /\ n < MaxRetries)
             /\ (n > 0 /\ call.answers[n] = "ok") => call.result = "ok"
             /\ (n > 0 /\ call.answers[n] = "error") => call.result = "error"
             /\ (n = MaxRetries /\ call.answers[n] = "nonce") => call.result = "error"
    /\ \A w \in WorkerIds :
          LET k == computeVAAKey(workers[w].vaa)
          IN (workers[w].pc = "finish" /\ sendLog[k] # <<>>
              /\ Last(sendLog[k]).result = "error")
             => ~workers[w].ok
    /\ \A k \in Keys :
          (sendLog[k] # <<>> /\ Last(sendLog[k]).result = "error"
           /\ outcome[k] # "running")
          => (outcome[k] = "failed" /\ k \notin DOMAIN processedVAAs)

\* Three nonce conflicts in a row: the call has ended in an error after three
\* transactions and the message is recorded as failed.
C14_Witness ==
    \E k \in Keys :
        /\ sendLog[k] # <<>>
        /\ Last(sendLog[k]).answers = <<"nonce", "nonce", "nonce">>
        /\ Last(sendLog[k]).result = "error"
        /\ outcome[k] = "failed"
        /\ k \notin inflightVAAs

\* The workers inside SendVerifyTransaction past the Lock.
Submitting == { w \in WorkerIds : workers[w].pc \in {"send", "signed"} }

\* C15: at most one worker at a time is inside SendVerifyTransaction past
\* the Lock, from its first fetch of the counter to its return, retries
\* included, and that worker holds nonceMu; the counter of a transaction
\* signed and not yet sent is the node's current one, no submission having
\* been accepted since it was fetched.
C15_SubmissionSerialized ==
    /\ Cardinality(Submitting) <= 1
    /\ \A w \in Submitting : nonceMu = w
    /\ \A w \in WorkerIds : workers[w].pc = "signed" => workers[w].nonce = signerNonce

\* One worker is on its second attempt, after a nonce conflict, its
\* transaction signed and not yet sent, while the worker of another message
\* waits for the lock.
C15_Witness ==
    \E w, v \in WorkerIds :
        /\ workers[w].pc = "signed" /\ workers[w].attempt = 1
        /\ workers[v].pc = "lock"
        /\ nonceMu = w

(***************************************************************************)
(* Relay: the life of Start                                                *)
(***************************************************************************)
\* Start has returned, with nil or with an error.
StartOver == startPc \in {"returned", "failed"}

\* C16: when Start has returned, after a shutdown or after a failed reconnect,
\* every worker it spawned has finished: no goroutine is left, no key is in
\* the in-flight set, no call of SendVerifyTransaction is running or holds the
\* submission lock.
C16_ReturnsAfterWorkers ==
    StartOver
    => /\ \A w \in WorkerIds : workers[w].pc = "free"
       /\ inflightVAAs = {}
       /\ nonceMu = 0
       /\ \A k \in Keys : outcome[k] # "running"
       /\ \A k \in Keys : \A c \in DOMAIN sendLog[k] : sendLog[k][c].result # "pending"

\* Start has returned after a shutdown that found two workers on their way:
\* one saw the cancellation and gave up, the other's submission was accepted.
C16_Witness ==
    /\ startPc = "returned"
    /\ \E k, m \in Keys :
          /\ outcome[k] = "failed" /\ sendLog[k] = <<>> /\ k = computeVAAKey(
                 CHOOSE b \in VAABytes : b.raw = "unreg")
          /\ outcome[m] = "ok" /\ sendLog[m] # <<>>

\* C17 as stated: a transport error never makes Start return an error: Start
\* is on its way out with an error only after the shutdown signal.
C17_StreamErrorNeverFatal ==
    startPc \in {"waitErr", "failed"} => ctxDone

\* Without any shutdown signal, Start has returned the error of a reconnect
\* that failed.
C17_FatalReconnect == startPc = "failed" /\ ~ctxDone

\* The messages that are dropped: undecodable, from another chain, from an
\* emitter that is not registered.
DroppedKeys == { computeVAAKey(b) : b \in { x \in VAABytes : x.raw \in {"broken", "other", "unreg"} } }

\* C18 as stated: a message that cannot be decoded, is a duplicate or comes
\* from another chain or an unregistered emitter is dropped alone, nothing
\* being submitted for it, and Start leaves its receive loop only after the
\* shutdown signal.
C18_OnlyShutdownEndsRelay ==
    /\ \A k \in DroppedKeys : sendLog[k] = <<>>
    /\ \A i \in DOMAIN deliveries : ~deliveries[i].admitted => deliveries[i].after # "none"
    /\ startPc \notin {"recv", "reconnect"} => ctxDone

\* An undecodable message was dropped, the message after it was submitted
\* and accepted, and then, with no shutdown signal, Start returned an error.
C18_EndedByTransport ==
    /\ startPc = "failed" /\ ~ctxDone
    /\ Len(deliveries) = 2
    /\ deliveries[1].key = computeVAAKey(CHOOSE b \in VAABytes : b.raw = "broken")
    /\ outcome[deliveries[1].key] = "failed"
    /\ deliveries[2].key = computeVAAKey(CHOOSE b \in VAABytes : b.raw = "good")
    /\ outcome[deliveries[2].key] = "ok"

(***************************************************************************)
(* Relay: the emitter filter's properties                                  *)
(***************************************************************************)
\* The message with the raw bytes raw, and the messages for which
\* SendVerifyTransaction has been called.
MessageOf(raw) == CHOOSE b \in VAABytes : b.raw = raw
Submitted == { b \in VAABytes : sendLog[computeVAAKey(b)] # <<>> }

\* C19 as stated: with the accept-any-emitter override off, a message is
\* submitted only if its source chain is the configured one and its emitter is
\* a key of the registry; and the override is on only if the environment sets
\* ACCEPT_ANY_EMITTER.
C19_OnlyRegisteredSubmitted ==
    /\ ~acceptAnyEmitter
       => \A b \in Submitted :
             /\ b.emitterChain = SourceChainID
             /\ b.emitter \in DOMAIN registeredEmitters
    /\ acceptAnyEmitter => env.ACCEPT_ANY_EMITTER.set

\* Under the default configuration (neither setting in the environment) the
\* message of an emitter that no registration names was submitted and accepted.
C19_UnregisteredSubmitted ==
    /\ env = DeployedEnv
    /\ MessageOf("alias").emitter \notin DOMAIN registeredEmitters
    /\ outcome[computeVAAKey(MessageOf("alias"))] = "ok"
    /\ Last(sendLog[computeVAAKey(MessageOf("alias"))]).result = "ok"

\* C20 as stated: a message is submitted only if the registry binds its emitter
\* to the account its payload names.
C20_EmitterBoundToTarget ==
    ~acceptAnyEmitter
    => \A b \in Submitted :
          /\ b.emitter \in DOMAIN registeredEmitters
          /\ registeredEmitters[b.emitter] = b.target

\* The emitter is registered for S1 alone; its message for S2 was submitted.
C20_OtherAccountSubmitted ==
    /\ ~acceptAnyEmitter
    /\ EmitterAddress(env) = <<>>
    /\ MessageOf("cross").emitter \in DOMAIN registeredEmitters
    /\ registeredEmitters[MessageOf("cross").emitter] = "S1"
    /\ MessageOf("cross").target = "S2"
    /\ outcome[computeVAAKey(MessageOf("cross"))] = "ok"
    /\ Last(sendLog[computeVAAKey(MessageOf("cross"))]).result = "ok"

(***************************************************************************)
(* Relay: the registry's properties                                        *)
(***************************************************************************)
\* The registry holds the pair of the log.
Holds(registry, log) ==
    /\ ~malformed(log)
    /\ logContract(log) \in DOMAIN registry
    /\ registry[logContract(log)] = logSafe(log)

\* The logs that accounts can emit.
AnyLogs ==
    { RegistrationLog(emitterScanStartBlock, a, c) : a \in Accounts, c \in Contracts }

\* C21: for every registry the relay reaches and every registration the
\* registry holds, applying it again once, twice or three times, by the
\* bootstrap replay and by the live handler, gives the same registry, and
\* applying it ahead of any other registration gives what the other
\* registration gives alone; and a step of the subscription that delivers a
\* registration the registry holds leaves the registry as it is.
C21_KnownPairIsNoOp ==
    /\ [](\A p \in AnyLogs :
             Holds(registeredEmitters, p)
             => /\ \A n \in 1..3 :
                      /\ loadRegisteredEmitters(registeredEmitters, [i \in 1..n |-> p])
                            = registeredEmitters
                      /\ handleNewEmitterEvents(registeredEmitters, [i \in 1..n |-> p])
                            = registeredEmitters
                /\ \A o \in AnyLogs :
                      /\ loadRegisteredEmitters(registeredEmitters, <<p, o>>)
                            = loadRegisteredEmitters(registeredEmitters, <<o>>)
                      /\ handleNewEmitterEvents(registeredEmitters, <<p, o>>)
                            = handleNewEmitterEvents(registeredEmitters, <<o>>))
    /\ [][(watchPc = "live" /\ nextLog' = nextLog + 1
           /\ Holds(registeredEmitters, eventLog[nextLog]))
          => registeredEmitters' = registeredEmitters]_vars

\* S1 registered ContractA twice; the subscription delivered the second log to
\* a registry that held the pair, and the registry holds it still, alone.
C21_Witness ==
    /\ Len(eventLog) = 2
    /\ logSafe(eventLog[1]) = "S1" /\ eventLog[1].data = ContractA
    /\ logSafe(eventLog[2]) = "S1" /\ eventLog[2].data = ContractA
    /\ watchPc = "live"
    /\ nextLog = 3
    /\ registeredEmitters = [e \in {EncodeToString(ContractA)} |-> "S1"]

(***************************************************************************)
(* Relay: the polling watcher's properties                                 *)
(***************************************************************************)
\* The blocks that the successful scans of pollNewEmitters have covered.
Scanned == UNION { s.from .. s.to : s \in { scans[i] : i \in { j \in DOMAIN scans : scans[j].ok } } }

\* C30: lastBlock never decreases; it moves only in a tick whose FilterLogs
\* succeeded, to the last block of the range that call scanned, a range that
\* begins right after the old mark; so the blocks from the one after the
\* deployment block up to lastBlock are exactly the blocks covered by
\* successful scans, and every registration mined in them is in the registry;
\* a scan that failed is followed by a scan that begins at the same block and
\* ends no earlier.
C30_HighWaterMark ==
    /\ [][lastBlock' >= lastBlock]_vars
    /\ [][lastBlock' # lastBlock
          => /\ scans' = Append(scans, Last(scans'))
             /\ Last(scans').ok
             /\ Last(scans').from = lastBlock + 1
             /\ Last(scans').to = lastBlock']_vars
    /\ [](Scanned = (emitterScanStartBlock + 1) .. lastBlock)
    /\ [](\A i \in DOMAIN eventLog :
             (eventLog[i].block > emitterScanStartBlock /\ eventLog[i].block <= lastBlock)
             => logContract(eventLog[i]) \in DOMAIN registeredEmitters)
    /\ [](\A i \in DOMAIN scans :
             i < Len(scans)
             => /\ scans[i + 1].to >= scans[i].to
                /\ scans[i + 1].from = IF scans[i].ok THEN scans[i].to + 1 ELSE scans[i].from)

\* The scan of the first block after deployment failed; the next tick scanned
\* from that block to the second and found the registration mined in the first.
C30_Witness ==
    /\ watchPc = "poll"
    /\ Len(scans) = 2
    /\ ~scans[1].ok /\ scans[1].from = emitterScanStartBlock + 1
    /\ scans[1].to = emitterScanStartBlock + 1
    /\ scans[2].ok /\ scans[2].from = emitterScanStartBlock + 1
    /\ scans[2].to = emitterScanStartBlock + 2
    /\ lastBlock = emitterScanStartBlock + 2
    /\ \E i \in DOMAIN eventLog :
          /\ eventLog[i].block = emitterScanStartBlock + 1
          /\ logContract(eventLog[i]) \in DOMAIN registeredEmitters

(***************************************************************************)
(* Relay: startup's properties                                             *)
(***************************************************************************)
\* The configuration lacks the signer key, or the target contract.
KeyAbsent == PrivateKey(env) = <<>>
TargetAbsent == EVMTargetContract(env) = <<>>

\* C22 as stated: when the signer key or the target contract is absent from
\* the configuration, startup fails: Start never gets to its receive loop and
\* SendVerifyTransaction is never called.
C22_AbsentConfigFailsStartup ==
    (KeyAbsent \/ TargetAbsent)
    => /\ startPc \in {"new", "fatal"}
       /\ \A k \in Keys : sendLog[k] = <<>>

\* Without a target contract, and with the accept-any override on, Start is in
\* its receive loop and a transaction was sent and accepted by the node.
C22_StartedWithoutTarget ==
    /\ TargetAbsent
    /\ ~KeyAbsent
    /\ startPc = "recv"
    /\ registeredEmitters = <<>>
    /\ \E k \in Keys : sendLog[k] # <<>> /\ Last(sendLog[k]).result = "ok"

(***************************************************************************)
(* SafeRecoveryModule: the binding of an account                           *)
(***************************************************************************)
\* C23: the binding of an address changes only in a step that is a registration
\* call made by that address -- the step emits AztecRecoveryContractSet with the
\* address as its indexed account and the new binding as its data; no call of
\* another sender and no applyRecovery, executeRecovery or verify step changes it.
C23_BindingChangesByOwnRegistration ==
    [][\A a \in Callers :
          aztecRecoveryContract'[a] # aztecRecoveryContract[a] =>
              /\ Len(eventLog') = Len(eventLog) + 1
              /\ logSafe(eventLog'[Len(eventLog')]) = a
              /\ eventLog'[Len(eventLog')].data = aztecRecoveryContract'[a]]_vars

\* Somebody else has registered ContractB while naming S1, a verify call for S1
\* has succeeded, and S1 is still bound to ContractA.
C23_Witness ==
    /\ \E k \in DOMAIN eventLog :
           logSafe(eventLog[k]) = "stranger" /\ eventLog[k].data = ContractB
    /\ aztecRecoveryContract["stranger"] = ContractB
    /\ aztecRecoveryContract["S1"] = ContractA
    /\ ret.status = "ok" /\ ret.kind = "verify"
    /\ "D" \in { safeOwners["S1"][k] : k \in DOMAIN safeOwners["S1"] }

(***************************************************************************)
(* The payload decoders                                                    *)
(***************************************************************************)
\* C24: decoding is all-or-nothing. parsePayload of a payload shorter than 75
\* bytes reverts with "Payload too short" and returns no field; verify of a
\* message whose payload is shorter than 116 bytes reverts (with "payload too
\* short" unless an earlier test of verify has failed), reports no field, and
\* leaves the owners, the thresholds, the consumed marks and the consumed hashes
\* as they were before the call.
C24_DecodeAllOrNothing ==
    /\ (ret.status # "none" /\ ret.kind = "parse" /\ Len(ret.call) < 75) =>
           /\ ret.status = "Payload too short"
           /\ ret.parsed = <<>>
           /\ Snapshot = ret.pre /\ consumedVaas = ret.marks
    /\ (ret.status # "none" /\ ret.kind = "verify" /\ Len(ret.call.payload) < 116) =>
           /\ ret.status \in {"ModulePaused", "InvalidVaa", "VaaAlreadyConsumed",
                              "payload too short"}
           /\ (~mPaused /\ ret.call.valid) => ret.status = "payload too short"
           /\ ret.debug = <<>>
           /\ Snapshot = ret.pre /\ consumedVaas = ret.marks

\* verify has reverted on a payload of 115 bytes, after an earlier verify had
\* marked its message and changed the owners of S1.
C24_Witness ==
    /\ ret.status = "payload too short" /\ ret.kind = "verify"
    /\ Len(ret.call.payload) = 115
    /\ consumedVaas # {}
    /\ safeOwners["S1"] # InitialOwners

\* C25: for both layouts, decoding the encoding of an intent returns the
\* intent, field for field. For the tuple layout the seven fields of
\* abi.decode are those encoded; for the compact layout every field that
\* parsePayload or verify reads from the payload (transaction hash, module,
\* chain id, account, candidate) is the field that was encoded.
C25_RoundTrip ==
    /\ (ret.status = "ok" /\ ret.kind = "decode") =>
           \A i \in TupleFields : ret.call = abiEncode(i) => ret.fields = i
    /\ (ret.status = "ok" /\ ret.kind = "parse") =>
           \A i \in CompactFields : ret.call = encodeCompact(i) =>
               /\ ret.parsed.txId = TxHash(i.txId)
               /\ ret.parsed.addressField5 = AddressBytes(i.module)
               /\ ret.parsed.chainId = ChainNumber(i.chainId)
               /\ ret.parsed.addressField7 = AddressBytes(i.safe)
    /\ (ret.status = "ok" /\ ret.kind = "verify") =>
           \A i \in CompactFields : ret.call.payload = encodeCompact(i) =>
               /\ ret.debug.chainId = ChainNumber(i.chainId)
               /\ ret.debug.safe = AddressBytes(i.safe)
               /\ ret.debug.candidate = AddressBytes(i.candidate)

\* parsePayload has returned the low two bytes of the chain id of a payload of
\* the compact layout as its chain id, and the third byte as the amount.
C25_ChainIdCut ==
    /\ ret.status = "ok" /\ ret.kind = "parse"
    /\ \E i \in CompactFields :
           /\ ret.call = encodeCompact(i)
           /\ ret.parsed.chainId # ChainNumber(i.chainId)
           /\ ret.parsed.chainId = ChainNumber(i.chainId) % 65536
           /\ ret.parsed.amount = ChainNumber(i.chainId) \div 65536

\* The decoders apart from the chain id of parsePayload: the tuple layout and
\* what verify reads do round-trip.
C25_RoundTripButChainId ==
    /\ (ret.status = "ok" /\ ret.kind = "decode") =>
           \A i \in TupleFields : ret.call = abiEncode(i) => ret.fields = i
    /\ (ret.status = "ok" /\ ret.kind = "parse") =>
           \A i \in CompactFields : ret.call = encodeCompact(i) =>
               /\ ret.parsed.txId = TxHash(i.txId)
               /\ ret.parsed.addressField5 = AddressBytes(i.module)
               /\ ret.parsed.addressField7 = AddressBytes(i.safe)
    /\ (ret.status = "ok" /\ ret.kind = "verify") =>
           \A i \in CompactFields : ret.call.payload = encodeCompact(i) =>
               /\ ret.debug.chainId = ChainNumber(i.chainId)
               /\ ret.debug.safe = AddressBytes(i.safe)
               /\ ret.debug.candidate = AddressBytes(i.candidate)

(***************************************************************************)
(* AztecRecoveryValidator: the order of the tests                          *)
(***************************************************************************)
\* The first test to fail when the tests are taken in the order version, chain
\* id, expiry, nonce, caller, arguments.
FirstFailure(sender, call) ==
    IF call.vaa.version # 1 THEN "BadVersion"
    ELSE IF call.vaa.chainId # BlockChainId THEN "WrongChain"
    ELSE IF isExpired(blockTime, call.vaa.expiry) THEN "Expired"
    ELSE IF isConsumed(consumed, call.vaa.nonce) THEN "NonceAlreadyConsumed"
    ELSE IF sender \notin authorizedModules THEN "NotAuthorizedModule"
    ELSE validateCallData(call, call.vaa.safe, call.vaa.owners, call.vaa.threshold,
                          call.vaa.nonce)

\* C26: validate, not paused and given an attestation the core accepts, reports
\* the first failure in the order version, chain id, expiry, nonce, caller,
\* arguments.
C26_CheckOrder ==
    (ret.status # "none" /\ ret.kind = "validate" /\ ~vPaused /\ ret.call.vaa.valid) =>
        ret.status = FirstFailure(ret.sender, ret.call)

\* An address that is not authorized has called validate with an attestation
\* for another chain, and got NotAuthorizedModule.
C26_UnauthorizedWrongChain ==
    /\ ret.status = "NotAuthorizedModule" /\ ret.kind = "validate"
    /\ ret.sender \notin authorizedModules
    /\ ret.call.vaa.valid /\ ret.call.vaa.version = 1
    /\ ret.call.vaa.chainId # BlockChainId

\* For an authorized caller the order is the stated one.
C26_OrderForAuthorized ==
    (ret.status # "none" /\ ret.kind = "validate" /\ ~vPaused /\ ret.call.vaa.valid
         /\ ret.sender \in authorizedModules) =>
        ret.status = FirstFailure(ret.sender, ret.call)

(***************************************************************************)
(* The outcome of a recovery                                               *)
(***************************************************************************)
OwnerSet(list) == { list[k] : k \in DOMAIN list }

\* The transaction that has just ended was a recovery that succeeded, and it
\* left the account with the owners and the threshold of its intent, making no
\* add or remove sub-call for an owner that was in both lists.
ReachedTarget ==
    LET s == ret.call.targetSafe
        target == OwnerSet(ret.call.vaa.owners)
    IN /\ OwnerSet(safeOwners[s]) = target
       /\ safeThreshold[s] = ret.call.vaa.threshold
       /\ \A k \in DOMAIN ret.calls :
              ret.calls[k].op \in {"add", "remove"} =>
                  ret.calls[k].owner \notin (OwnerSet(ret.current) \cap target)

\* C27: whenever applyRecovery or executeRecovery succeeds, the owners of the
\* account are exactly the owners of the intent, its threshold is the intent's,
\* and no owner in both the old and the new list was removed or added again.
C27_SuccessReachesTarget ==
    (ret.status = "ok" /\ ret.kind \in {"apply", "exec"}) => ReachedTarget

\* executeRecovery has succeeded and the account still has an owner that the
\* intent does not name.
C27_OldOwnersKept ==
    /\ ret.status = "ok" /\ ret.kind = "exec"
    /\ ret.call.vaa.owners = <<"D">>
    /\ OwnerSet(safeOwners["S1"]) = OwnerSet(InitialOwners) \cup {"D"}
    /\ safeThreshold["S1"] = ret.call.vaa.threshold

\* The same for applyRecovery alone.
C27_ApplyReachesTarget ==
    (ret.status = "ok" /\ ret.kind = "apply") => ReachedTarget

(***************************************************************************)
(* applyRecovery on a valid target                                         *)
(***************************************************************************)
\* The transaction that has just ended was applyRecovery with a target that is
\* not empty, has no owner twice and a threshold within its size, and the
\* validator had accepted it.
ValidTargetApplied ==
    /\ ret.status \in {"ok", "SafeCallFailed", "ConsumeNonceFailed"}
    /\ ret.kind = "apply"
    /\ NoDup(ret.call.newOwners)
    /\ ret.call.newThreshold \in 1..Len(ret.call.newOwners)

\* C28: for every account state and every valid target under an attestation
\* that passes, applyRecovery completes: no sub-call is rejected by the account.
C28_ApplyCompletes ==
    ValidTargetApplied => ret.status = "ok"

\* applyRecovery with a valid target has reverted because the account rejected
\* a removal: the threshold passed, the account's own, is more than the owners
\* that would remain.
C28_RemovalRejected ==
    /\ ValidTargetApplied
    /\ ret.status = "SafeCallFailed"
    /\ LET c == ret.calls[Len(ret.calls)]
       IN /\ c.op = "remove"
          /\ c.threshold > Len(c.at) - 1
          /\ c.threshold = ret.pre.safeThreshold[ret.call.targetSafe]

\* When the account's threshold is no more than the number of target owners,
\* applyRecovery with a valid target completes.
C28_CompletesUnderLowThreshold ==
    (ValidTargetApplied
        /\ ret.pre.safeThreshold[ret.call.targetSafe] <= Len(ret.call.newOwners)) =>
        ret.status = "ok"

(***************************************************************************)
(* Relay: the waits after the shutdown signal                              *)
(***************************************************************************)
\* The blocking waits: Start in stream.Recv(); Start in the time.Sleep of the
\* reconnect and of SubscribeSignedVAA's attempts; the watcher in the
\* time.Sleep before it restarts; a worker in the time.Sleep before the
\* retry of a nonce conflict; a worker in SendTransaction.
InReceive == startPc = "recv"
InBackoff == startPc = "reconnect"
InWatcherDelay == watchPc = "restart"
InRetryDelay(w) == workers[w].pc = "send" /\ workers[w].attempt > 0
InSubmission(w) == workers[w].pc = "signed"

\* C29: after the shutdown signal every blocking wait ends, and ends because of
\* the signal: it ends even when no timer runs out and the node gives no answer.
C29_WaitsEndBySignal ==
    /\ (ctxDone /\ InReceive) ~> ~InReceive
    /\ (ctxDone /\ InBackoff) ~> ~InBackoff
    /\ (ctxDone /\ InWatcherDelay) ~> ~InWatcherDelay
    /\ \A w \in WorkerIds : (ctxDone /\ InRetryDelay(w)) ~> ~InRetryDelay(w)
    /\ \A w \in WorkerIds : (ctxDone /\ InSubmission(w)) ~> ~InSubmission(w)

\* The signal has been given while Start sleeps before it reconnects, the
\* watcher sleeps before it restarts and a worker waits for the node.
C29_SleepingThroughShutdown ==
    /\ ctxDone
    /\ InBackoff
    /\ InWatcherDelay
    /\ \E w \in WorkerIds : InSubmission(w)

\* The feed receive does end because of the signal.
C29_ReceiveEndsBySignal == (ctxDone /\ InReceive) ~> ~InReceive

\* Each of the other waits taken alone.
C29_BackoffEndsBySignal == (ctxDone /\ InBackoff) ~> ~InBackoff
C29_WatcherDelayEndsBySignal == (ctxDone /\ InWatcherDelay) ~> ~InWatcherDelay
C29_RetryDelayEndsBySignal ==
    \A w \in WorkerIds : (ctxDone /\ InRetryDelay(w)) ~> ~InRetryDelay(w)
C29_SubmissionEndsBySignal ==
    \A w \in WorkerIds : (ctxDone /\ InSubmission(w)) ~> ~InSubmission(w)

(***************************************************************************)
(* Chain: the scope of a consumed nonce                                    *)
(***************************************************************************)
\* The account of the call has not been recovered when the call is made: in
\* ScopeSpec every recovery that succeeds replaces the initial owners.
NeverRecovered(s) == ret.pre.safeOwners[s] = InitialOwners

\* C31: consumption is scoped to the pair (account, nonce): a valid recovery of
\* an account that has not been recovered yet succeeds, whatever nonces the
\* recoveries of the other account have consumed.
C31_NonceScopedToAccount ==
    (ApplyEnded /\ NeverRecovered(ret.call.targetSafe)) => ret.status = "ok"

\* S1 was recovered under a nonce; the recovery of S2, never recovered, that
\* carries the same nonce was refused with NonceAlreadyConsumed.
C31_OtherAccountRefused ==
    /\ ApplyEnded
    /\ ret.call.targetSafe = "S2"
    /\ NeverRecovered("S2")
    /\ ret.pre.safeOwners["S1"] = <<"A", "D">>
    /\ ret.pre.consumed = {ret.call.vaa.nonce}
    /\ ret.status = "NonceAlreadyConsumed"

\* The ledger is keyed by the nonce alone: a recovery is refused for its nonce
\* exactly when some recovery, of whichever account, has consumed that nonce.
C31_LedgerKeyedByNonce ==
    ApplyEnded
    => /\ ret.status = "NonceAlreadyConsumed" <=> ret.call.vaa.nonce \in ret.pre.consumed
       /\ ret.status \in {"ok", "NonceAlreadyConsumed"}

(***************************************************************************)
(* Chain: the address decoders of the compact layout                       *)
(***************************************************************************)
AddressDecoded == ret.status # "none" /\ ret.kind = "address"

\* C32: with at least 20 bytes from the offset, extractAndReverseAddress and
\* _extractAddressLE return the same address, whose i-th byte from the most
\* significant end is payload[offset + 19 - i]; with fewer bytes both fail.
C32_AddressDecodersAgree ==
    AddressDecoded
    => LET p == ret.call.payload
           o == ret.call.offset
       IN IF Len(p) - o >= 20
          THEN /\ ret.reversed = ret.le
               /\ Len(ret.le) = 20
               /\ \A i \in 0..19 : ret.le[i + 1] = p[(o + 19 - i) + 1]
          ELSE /\ ret.reversed = "Insufficient bytes for address"
               /\ ret.le = <<>>
               /\ ret.status = "Panic"

\* An address was decoded from bytes that differ from one another, at an offset
\* other than zero, with bytes left over after it.
C32_Witness ==
    /\ AddressDecoded
    /\ ret.status = "ok"
    /\ ret.call.offset = 2
    /\ Len(ret.call.payload) = MaxRamp
    /\ ret.le[1] = 22 /\ ret.le[20] = 3
    /\ ret.reversed = ret.le

(***************************************************************************)
(* Chain: the chain id of the compact layout                               *)
(***************************************************************************)
\* The three bytes at offset 52 as a number, least significant byte first.
ChainIdAt52(payload) == payload[53] + 256 * payload[54] + 65536 * payload[55]

VerifyAccepted == ret.status = "ok" /\ ret.kind = "verify"
ParseAccepted == ret.status = "ok" /\ ret.kind = "parse"

\* C33: the chain id of a payload is the 3-byte little-endian value at offset
\* 52 for every decoder: what parsePayload returns as chainId is that value, and
\* is the chain id verify read, for every payload the two of them accept.
C33_ChainIdDecodersAgree ==
    /\ ParseAccepted => ret.parsed.chainId = ChainIdAt52(ret.call)
    /\ VerifyAccepted
       => /\ ret.debug.chainId = ChainIdAt52(ret.call.payload)
          /\ parsePayload(ret.call.payload).status = "ok"
             => parsePayload(ret.call.payload).parsed.chainId = ret.debug.chainId

\* verify accepted a payload for the chain id of the deployment, and
\* parsePayload takes the same payload and returns another chain id.
C33_ChainIdsDiffer ==
    /\ VerifyAccepted
    /\ ret.debug.chainId = SepoliaChainId
    /\ parsePayload(ret.call.payload).status = "ok"
    /\ parsePayload(ret.call.payload).parsed.chainId = SepoliaChainId % 65536
    /\ parsePayload(ret.call.payload).parsed.chainId # ret.debug.chainId

\* verify reads the three bytes; parsePayload returns the lower two as chainId
\* and the third as amount.
C33_ParseSplitsChainId ==
    /\ VerifyAccepted => ret.debug.chainId = ChainIdAt52(ret.call.payload)
    /\ ParseAccepted
       => /\ ret.parsed.chainId = ChainIdAt52(ret.call) % 65536
          /\ ret.parsed.amount = ChainIdAt52(ret.call) \div 65536

(***************************************************************************)
(* Chain: verify and its consumed marks                                    *)
(***************************************************************************)
VerifyEnded == ret.status # "none" /\ ret.kind = "verify"

\* C34: a raw attestation passes verify at most once: its mark is never
\* cleared, a verify that succeeds finds the mark unset and sets it, and a
\* verify that fails leaves the marks, the owners and the thresholds as they
\* were.
C34_VerifyAtMostOnce ==
    /\ [][consumedVaas \subseteq consumedVaas']_vars
    /\ []((VerifyEnded /\ ret.status = "ok")
          => /\ ret.call.raw \notin ret.marks
             /\ consumedVaas = ret.marks \cup {ret.call.raw})
    /\ []((VerifyEnded /\ ret.status # "ok")
          => /\ consumedVaas = ret.marks
             /\ Snapshot = ret.pre)
    /\ []((VerifyEnded /\ ret.call.raw \in ret.marks) => ret.status # "ok")

\* Two attestations have been consumed, the module is not paused, and the
\* attestation that added D to the owners of S1 was presented again and refused.
C34_Witness ==
    /\ VerifyEnded
    /\ ret.status = "VaaAlreadyConsumed"
    /\ ~mPaused
    /\ ret.call.raw \in consumedVaas
    /\ Cardinality(consumedVaas) >= 2
    /\ isOwner(safeOwners["S1"], "D")
    /\ Snapshot = ret.pre

(***************************************************************************)
(* Relay: every worker ends                                                *)
(***************************************************************************)
\* C35: every worker that Start spawns finishes, and the key it was spawned
\* for leaves the in-flight set, as long as the calls to the destination chain
\* return: no worker waits for ever, at the submission lock or elsewhere. (A
\* slot is free, and a key out of the set, again and again: whenever a worker
\* runs or a key is in flight, a later state has it finished.)
C35_WorkersFinish ==
    /\ \A w \in WorkerIds : []<>(workers[w].pc = "free")
    /\ \A k \in Keys : []<>(k \notin inflightVAAs)

\* A worker waits for the submission lock while another worker, on a retry
\* after a nonce conflict, holds it.
C35_Witness ==
    \E w, v \in WorkerIds :
        /\ w # v
        /\ workers[w].pc = "lock"
        /\ nonceMu = v
        /\ workers[v].pc = "signed"
        /\ workers[v].attempt > 0

(***************************************************************************)
(* Relay: registrations reach the registry                                 *)
(***************************************************************************)
\* The i-th registration log has been emitted; its contract is in the registry.
Emitted(i) == i \in DOMAIN eventLog
Registered(i) == Emitted(i) /\ logContract(eventLog[i]) \in DOMAIN registeredEmitters

\* C36: every registration emitted at or after the deployment block is in the
\* registry of the running relay sooner or later, with the subscription as
\* with the poller, whenever it was emitted and also after a bootstrap scan
\* that failed.
C36_RegistrationsReachRegistry ==
    \A i \in 1..MaxEvents : Emitted(i) ~> Registered(i)

\* The subscription is live and has begun after a registration that no scan
\* had seen: the registration is behind the subscription and not in the
\* registry.
C36_MissedBySubscription ==
    \E i \in 1..MaxEvents :
        /\ Emitted(i)
        /\ ~Registered(i)
        /\ eventLog[i].block > emitterScanStartBlock
        /\ watchPc = "live"
        /\ nextLog > i

\* What does hold: the poller finds every registration mined after the
\* deployment block, and the subscription every registration it delivers.
C36_PollerCatchesUp ==
    \A i \in 1..MaxEvents :
        /\ (watchPc = "poll" /\ Emitted(i) /\ eventLog[i].block > emitterScanStartBlock)
              ~> Registered(i)
        /\ (watchPc = "live" /\ Emitted(i) /\ i >= nextLog)
              ~> (Registered(i) \/ watchPc # "live")

(***************************************************************************)
(* Chain: who marks a nonce consumed                                       *)
(***************************************************************************)
\* C37: the validator's consumed set grows only at the end of an applyRecovery
\* that succeeds, by the nonce of the attestation that call validated.
C37_ConsumedOnlyByRecovery ==
    [][consumed' # consumed
       => /\ stack # <<>> /\ stack' = <<>>
          /\ ret'.status = "ok" /\ ret'.kind = "apply"
          /\ consumed' = consumed \cup {ret'.call.vaa.nonce}]_vars

\* A nonce is consumed and no recovery has been applied: the owners of S1 are
\* those of the deployment, and the validator's owner has authorized the
\* module only.
C37_ConsumedWithoutRecovery ==
    /\ consumed # {}
    /\ Idle
    /\ safeOwners["S1"] = InitialOwners
    /\ vOwner = "deployer"
    /\ authorizedModules = {"module", "stranger"}

\* What does hold: a recovery that succeeds leaves its nonce consumed, and the
\* set changes only while some address is authorized.
C37_RecoveryConsumes ==
    /\ []((ApplyEnded /\ ret.status = "ok") => ret.call.vaa.nonce \in consumed)
    /\ [][consumed' # consumed => authorizedModules # {}]_vars

(***************************************************************************)
(* Chain: who changes the authorized modules                               *)
(***************************************************************************)
\* A transaction that called setModuleAuthorized or onInstall has just ended.
AdminEnded == ret.status # "none" /\ ret.kind \in {"authorize", "install"}

\* C38: the list of authorized modules changes only in a call made by the
\* validator's owner; a call of any other sender leaves it as it was.
C38_AuthorizedOnlyByOwner ==
    /\ [][authorizedModules' # authorizedModules
          => ret'.status # "none" /\ ret'.kind \in {"authorize", "install"}]_vars
    /\ []((AdminEnded /\ authorizedModules # ret.authorized) => ret.sender = vOwner)

\* An address that is not the owner has called onInstall, and the address its
\* data names is authorized beside the module.
C38_AuthorizedByInstall ==
    /\ AdminEnded
    /\ ret.kind = "install"
    /\ ret.sender # vOwner
    /\ ret.authorized = {"module"}
    /\ authorizedModules = {"module", "stranger"}

\* What does hold: setModuleAuthorized called by another sender than the owner
\* reverts and changes nothing, and onInstall only adds.
C38_SetterOwnerOnly ==
    /\ [][authorizedModules' # authorizedModules
          => ret'.status # "none" /\ ret'.kind \in {"authorize", "install"}]_vars
    /\ []((AdminEnded /\ ret.kind = "authorize" /\ ret.sender # vOwner)
          => ret.status = "NotOwner" /\ authorizedModules = ret.authorized)
    /\ []((AdminEnded /\ ret.kind = "install")
          => /\ ret.authorized \subseteq authorizedModules
             /\ authorizedModules \subseteq ret.authorized \cup {ret.call.module})

(***************************************************************************)
(* SafeRecoveryModule: the source of an attestation                        *)
(***************************************************************************)
\* The owners of account s are not those the last transaction found.
OwnersChanged(s) == safeOwners[s] # ret.pre.safeOwners[s]

\* C39: verify changes the owners of an account only when the emitter of the
\* attestation is the source contract the account has registered; an
\* attestation of any other emitter changes no account.
C39_VerifyOnlyFromRegisteredSource ==
    \A s \in SafeAddrs :
        (VerifyEnded /\ OwnersChanged(s)) => ret.call.emitterAddress = aztecRecoveryContract[s]

\* S1 is bound to ContractA, and a verify of an attestation that ContractB
\* published has added D to its owners.
C39_ForeignEmitterChangesOwners ==
    /\ VerifyAccepted
    /\ aztecRecoveryContract["S1"] = ContractA
    /\ ret.call.emitterAddress = ContractB
    /\ ret.pre.safeOwners["S1"] = InitialOwners
    /\ safeOwners["S1"] = Append(InitialOwners, "D")

\* What does hold: a verify changes only the account its payload names, by
\* adding the candidate of the payload, and only when it succeeds; the emitter
\* it reports is the one of the attestation, whatever the account registered.
C39_VerifyChangesNamedAccount ==
    \A s \in SafeAddrs :
        (VerifyEnded /\ OwnersChanged(s)) =>
            /\ ret.status = "ok"
            /\ ret.debug.emitter = ret.call.emitterAddress
            /\ AddressOf(ret.debug.safe) = s
            /\ safeOwners[s] = Append(ret.pre.safeOwners[s], AddressOf(ret.debug.candidate))

(***************************************************************************)
(* Relay: what the success cache holds                                     *)
(***************************************************************************)
\* The destination chain has accepted a submission of the message of key k.
Accepted(k) == \E i \in DOMAIN sendLog[k] : sendLog[k][i].result = "ok"

\* The message b would go to the destination chain if a worker took it now.
WouldSubmit(b) ==
    processDecision(b, processingCancelled, acceptAnyEmitter,
                    EmitterAddress(env), registeredEmitters) = "submit"

\* C40: a key is in the success cache only if a submission of its message was
\* accepted; a message that was skipped is not cached, so a delivery of a
\* message that was never accepted, that is not in flight and that would now
\* be submitted is admitted by the gate.
C40_CachedOnlyWhenAccepted ==
    /\ [](\A k \in DOMAIN processedVAAs : Accepted(k))
    /\ [][\A b \in CacheFeed :
             (/\ Receive(b)
              /\ ~Accepted(computeVAAKey(b))
              /\ computeVAAKey(b) \notin inflightVAAs
              /\ WouldSubmit(b))
             => Last(deliveries').admitted]_vars

\* The message of ContractB was skipped while ContractB was not registered and
\* its key was cached with no submission made; ContractB is registered now, the
\* entry has not expired, and the message delivered again has been refused.
C40_SkippedMessageRefused ==
    LET b == VAAOf("unreg", TRUE, SourceChainID, ContractB, "S1")
        k == computeVAAKey(b)
    IN /\ sendLog[k] = <<>>
       /\ k \in DOMAIN processedVAAs
       /\ clock - processedVAAs[k] < DedupeTTL
       /\ WouldSubmit(b)
       /\ Len(deliveries) = 2
       /\ deliveries[1].key = k /\ deliveries[1].admitted
       /\ deliveries[2].key = k /\ ~deliveries[2].admitted
       /\ deliveries[2].after = "ok"
       /\ ~beginProcessingVAA(k, processedVAAs, inflightVAAs, clock)[1]

\* What does hold: a key is cached only after its worker returned without an
\* error, which is an accepted submission or a skip with no submission at all;
\* a worker that returned an error leaves no entry.
C40_CachedWhenWorkerReturnedNil ==
    \A k \in Keys :
        /\ k \in DOMAIN processedVAAs => outcome[k] = "ok" /\ (Accepted(k) \/ sendLog[k] = <<>>)
        /\ outcome[k] = "failed" => k \notin DOMAIN processedVAAs

====
